---- MODULE Spec2Model ----
(***************************************************************************)
(* Token Renewer: the renewal decision engine (TokenReconciler.Reconcile)  *)
(* and the plugin stream handler with its provider registry.               *)
(*                                                                         *)
(* Time is an integer clock; the value 0 is the zero time.Time, which the  *)
(* Token status uses for "expiration not known yet".  The API server, the  *)
(* work queue and the providers are the environment of the engine: their   *)
(* answers are chosen by \E among the answers their contracts allow.       *)
(***************************************************************************)
EXTENDS Integers, Sequences, FiniteSets, TLC

\* ---------------------------------------------------------------- bounds
MaxTime == 3
MaxBefore == 1
MaxLifetime == 2
MaxExpiration == 4
MaxSessions == 2
MaxCalls == 2
TimeoutTicks == 1
MaxStem == 3
MaxMetaLen == 3
IntBits == 5
MaxFiles == 2

\* The instants of the 45-minute scenario, in quarters of an hour.
Minutes45 == 3
Hour == 4
Day == 96
TenYears == 350592

\* Expirations a provider can report (never the zero time).
Expirations == 1..MaxExpiration
Lifetimes == 1..MaxLifetime

\* Metadata a provider can return: the one the Token was created with, or another
\* one, which may be the empty string.
Metadatas == {"", "m1", "m2"}
TokenValues == {"t1", "t2"}
Absent == "<absent>"
ProviderName == "linode"
PluginNames == {ProviderName}
\* The names a registration frame can declare, the empty one among them.
DeclaredNames == PluginNames \cup {""}
\* A registration frame: malformed, or declaring a name.
Frames == [ok : {FALSE}, name : {""}] \cup [ok : {TRUE}, name : DeclaredNames]
SessionIds == 1..MaxSessions
CallerIds == 1..MaxCalls

NoError == "<nil>"
NoProvider == 0
NotRead == -1
\* The read at line 62 found no Token.
ReadNotFound == -2
NoSession == [state |-> "none", name |-> ""]
\* A caller of CallRPC.  chan is its response channel (capacity 1): ChanEmpty,
\* ChanClosed ("session closed") or the correlation id of the frame delivered.
\* removed counts how often its entry left the correlation table.
ChanEmpty == 0
ChanClosed == -1
NoRpc == [state |-> "unused", sess |-> 0, id |-> 0, deadline |-> 0, chan |-> ChanEmpty,
          removed |-> 0, outcome |-> "none", payload |-> 0]

\* ---------------------------------------------------------------- state
VARIABLES
    env,        \* "any": arbitrary environment; "prompt": answering provider, timer-driven scheduler;
                \* "mux": the handler and its streams; "facade": the provider facades and their callers
    now,        \* time.Now()
    apiToken,   \* the Token object held by the API server
    apiSecret,  \* the Secret object held by the API server
    server,     \* StreamServer: "serving" | "stopping" (in GracefulStop) | "stopped"
    sessions,   \* PluginStream invocations: [state, name] per stream
    activePlugins, \* StreamHandler.activePlugins
    registry,   \* ProvidersManager: provider name -> handle (NoProvider when absent)
    nextID,     \* per stream: the next correlation id
    outstanding, \* per stream: the correlation table (ids of the outstanding calls)
    inbox,      \* per stream: response frames sent by the plugin, not yet decoded
    rpcs,       \* the callers of CallRPC
    facade,     \* a call through a direct-unary facade (GRPCClient, PluginClient)
    discovery,  \* the last DiscoverPlugins call: [dir, outcome, plugins, err]
    linode,     \* the Linode account and the last call of the Linode plugin
    issued,     \* the credential the provider currently honours: [metadata, token, exp]
    queue,      \* work queue entry of the Token: "none" | "ready" | "after"
    requeueAt,  \* due time of the "after" entry
    pc,         \* position of the running Reconcile, "idle" between evaluations
    token,      \* Reconcile's local Token object
    secret,     \* Reconcile's local Secret object
    tokenValue, \* string(secret.Data["token"])
    validity,   \* *t returned by GetTokenValidity
    renewed,    \* (newToken, newMeta, newTime) returned by RenewToken
    dueCheck,   \* what the due check at line 125 read and decided
    result,     \* the returned ctrl.Result
    err,        \* the returned error
    events,     \* Recorder.Event calls of this evaluation, in order
    calls,      \* provider calls of this evaluation, in order
    writes,     \* API-server writes of this evaluation, in order
    trail,      \* the steps this evaluation has run, in order
    stored      \* token.Status.ExpirationTime as read at line 62 (NotRead before)

engineVars == <<pc, token, secret, tokenValue, validity, renewed, dueCheck,
                result, err, events, calls, writes, trail, stored>>
handlerVars == <<server, sessions, activePlugins, registry>>
muxVars == <<nextID, outstanding, inbox, rpcs, facade, discovery, linode>>
vars == <<env, now, apiToken, apiSecret, server, sessions, activePlugins, registry,
          nextID, outstanding, inbox, rpcs, facade, discovery, linode, issued, queue,
          requeueAt, pc, token, secret, tokenValue, validity, renewed, dueCheck,
          result, err, events, calls, writes, trail, stored>>

NoToken == [metadata |-> "", exp |-> 0, before |-> 0]
NoSecret == [data |-> [k \in {"token", "other"} |-> Absent],
             stringData |-> [k \in {"token", "other"} |-> Absent]]
NoRenewal == [token |-> "", metadata |-> "", exp |-> 0]
NoDueCheck == [done |-> FALSE, at |-> 0, exp |-> 0, before |-> 0, due |-> FALSE]
EmptyResult == [RequeueAfter |-> 0, Requeue |-> FALSE]

\* ------------------------------------------------------------ environment
\* Whether an API-server request may fail for a reason of the server's own.
\* Variant of Cancelled: the calls are made with a context of their own.
CancelledNever == FALSE

\* ctx.Err() # nil for the context Reconcile was called with, which it hands to every
\* request and every provider call (lines 62, 70, 102, 109, 127, 137, 149); the
\* facades hand it on, GRPCClient as the parent of a WithTimeout context.  A request
\* or call made with, or in flight on, a cancelled context returns an error.
Cancelled == env = "cancelled"

ApiFailures == IF env = "any" THEN {FALSE, TRUE} ELSE IF Cancelled THEN {TRUE} ELSE {FALSE}
\* In "faulty" one write of the policy is still going to fail; once it has, the
\* environment is "settled" and every request is served.
PatchOutcomes ==
    IF env = "any" THEN {"ok", "getFails", "patchFails", "statusPatchFails"}
    ELSE IF env = "faulty" THEN {"ok", "patchFails", "statusPatchFails"}
    ELSE IF Cancelled THEN {"getFails"}
    ELSE {"ok"}
UpdateOutcomes ==
    IF env = "any" THEN {"ok", "getFails", "updateFails"}
    ELSE IF Cancelled THEN {"getFails"}
    ELSE {"ok"}
EnvAfter(failed) == IF env = "faulty" /\ failed THEN "settled" ELSE env

Event(type, reason) == [type |-> type, reason |-> reason]
Call(method) == [method |-> method, metadata |-> token.metadata, token |-> tokenValue]

\* The environments in which the provider is the Linode plugin.
LinodeEnvs == {"faulty", "settled", "scenario"}
NoCredential == [metadata |-> "", token |-> "", exp |-> 0]

\* linode.go: both calls authenticate with the token value (SetToken) and look the
\* token up by the id held in the metadata (GetToken(ctx, id)); the lookup succeeds
\* for the one token the account holds.
Honoured(metadata, value) == metadata = issued.metadata /\ value = issued.token

ProviderFailures ==
    IF env = "any" THEN {FALSE, TRUE}
    ELSE IF env \in LinodeEnvs THEN {~Honoured(token.metadata, tokenValue)}
    ELSE IF Cancelled THEN {TRUE}
    ELSE {FALSE}

\* What GetTokenValidity can answer: with an arbitrary provider any instant,
\* otherwise the expiration of the credential the provider honours.
ValidityAnswers == IF env = "any" THEN Expirations ELSE {issued.exp}
\* What RenewToken can answer: a new value, new metadata (possibly the same, possibly
\* empty) and the new expiration; in "prompt" the new credential lives a whole
\* lifetime from now.  The Linode plugin creates a token (a new id, a new value),
\* and deletes the one it was called for.
RenewalAnswers ==
    IF env \in LinodeEnvs
    THEN [token : TokenValues \ {issued.token},
          metadata : Metadatas \ {"", issued.metadata},
          exp : IF env = "scenario" THEN {now + Day} ELSE {now + l : l \in Lifetimes}]
    ELSE [token : TokenValues, metadata : Metadatas,
          exp : IF env = "any" THEN Expirations ELSE {now + l : l \in Lifetimes}]

\* ------------------------------------------------------- library semantics
NotFoundError == "not found"
ApiError == "api server error"

\* client.Get: the error for an object that exists or not, on a server that fails
\* the request or not.
GetError(exists, apiFail) ==
    IF apiFail THEN ApiError ELSE IF ~exists THEN NotFoundError ELSE NoError

\* Variant of IgnoreNotFound: every error is returned.
IgnoreNothing(e) == e

\* client.IgnoreNotFound, line 64.
IgnoreNotFound(e) == IF e = NotFoundError THEN NoError ELSE e

\* Variant of SecretError: a Secret that is not found is no error.
SecretErrorIgnoringNotFound(e) ==
    IF e \in {NoError, NotFoundError} THEN NoError ELSE "unable to fetch secret"

\* Line 73: every error of the Secret's read is wrapped and returned.
SecretError(e) == IF e = NoError THEN NoError ELSE "unable to fetch secret"

\* Variant of ValidationError: the API server applies no schema to the Token.
ValidationErrorNone(metadata) == NoError

\* The Token's schema, TokenSpec.Metadata: Required, MinLength=1.  The API server
\* rejects a write that would leave spec.metadata empty.
ValidationError(metadata) ==
    IF metadata = "" THEN "spec.metadata: Invalid value: should be at least 1 chars long"
    ELSE NoError

\* Variant of CreateError: the API server accepts the object.
CreateErrorNone(hasResourceVersion) == NoError

\* client.Create: the API server rejects an object that carries a resourceVersion,
\* as every object read from it does.
CreateError(hasResourceVersion) ==
    IF hasResourceVersion
    THEN "resourceVersion should not be set on objects to be created"
    ELSE NoError

\* controllerutil.CreateOrPatch on the Token: Get the object again, apply the mutate
\* function, Patch the object if it differs outside status, then Patch the status if
\* the status differs.  A Token that is gone is handed to Create, which the API
\* server rejects because the object read at line 62 carries a resourceVersion.
\* m = [setMeta, metadata, exp] is what the mutate function assigns.
CreateOrPatch(m, outcome) ==
    LET fresh == [metadata |-> apiToken.metadata, exp |-> apiToken.exp, before |-> apiToken.before]
        after == [fresh EXCEPT !.metadata = IF m.setMeta THEN m.metadata ELSE @,
                               !.exp = m.exp]
        specDiff == after.metadata # fresh.metadata
        statusDiff == after.exp # fresh.exp
        patched == [apiToken EXCEPT !.metadata = after.metadata]
        mutated == [token EXCEPT !.metadata = IF m.setMeta THEN m.metadata ELSE @,
                                 !.exp = m.exp]
    IN  IF outcome = "getFails"
        THEN [op |-> "None", failed |-> TRUE, server |-> apiToken, obj |-> token, wrote |-> <<>>]
        ELSE IF ~apiToken.exists
        THEN IF CreateError(TRUE) # NoError
             THEN [op |-> "None", failed |-> TRUE, server |-> apiToken, obj |-> mutated,
                   wrote |-> <<>>]
             ELSE [op |-> "Created", failed |-> FALSE,
                   server |-> [exists |-> TRUE, metadata |-> mutated.metadata, exp |-> 0,
                               before |-> mutated.before],
                   obj |-> [mutated EXCEPT !.exp = 0], wrote |-> <<"create">>]
        ELSE IF specDiff /\ (outcome = "patchFails" \/ ValidationError(after.metadata) # NoError)
        THEN [op |-> "None", failed |-> TRUE, server |-> apiToken, obj |-> after, wrote |-> <<>>]
        ELSE IF statusDiff /\ outcome \in {"patchFails", "statusPatchFails"}
        THEN [op |-> IF specDiff THEN "Updated" ELSE "None", failed |-> TRUE,
              server |-> IF specDiff THEN patched ELSE apiToken, obj |-> after,
              wrote |-> IF specDiff THEN <<"spec">> ELSE <<>>]
        ELSE [op |-> IF specDiff /\ statusDiff THEN "UpdatedStatus"
                     ELSE IF specDiff THEN "Updated"
                     ELSE IF statusDiff THEN "UpdatedStatusOnly" ELSE "None",
              failed |-> FALSE,
              server |-> [patched EXCEPT !.exp = after.exp],
              obj |-> after,
              wrote |-> (IF specDiff THEN <<"spec">> ELSE <<>>)
                        \o (IF statusDiff THEN <<"status">> ELSE <<>>)]

\* Variant of Fold: the written StringData replaces Data.
FoldReplacing(data, stringData) == stringData

\* The API server folds a written StringData into Data: the keys of StringData
\* overwrite, every other key of Data stays.
Fold(data, stringData) ==
    [k \in DOMAIN data |-> IF stringData[k] # Absent THEN stringData[k] ELSE data[k]]

\* controllerutil.CreateOrUpdate on the Secret: Get the object again, apply the mutate
\* function (lines 138-139: a fresh StringData holding the new token), Update unless
\* the mutated object equals the one just read.  The API server never returns
\* StringData and folds a written StringData into Data.
CreateOrUpdate(newToken, outcome) ==
    LET existing == [data |-> apiSecret.data, stringData |-> NoSecret.stringData]
        obj == [existing EXCEPT !.stringData = [NoSecret.stringData EXCEPT !["token"] = newToken]]
        folded == Fold(obj.data, obj.stringData)
        created == [k \in DOMAIN secret.data |->
                      IF k = "token" THEN newToken ELSE secret.data[k]]
    IN  IF outcome = "getFails"
        THEN [op |-> "None", failed |-> TRUE, server |-> apiSecret]
        ELSE IF ~apiSecret.exists
        THEN IF CreateError(TRUE) # NoError
             THEN [op |-> "None", failed |-> TRUE, server |-> apiSecret]
             ELSE [op |-> "Created", failed |-> FALSE,
                   server |-> [exists |-> TRUE, data |-> created]]
        ELSE IF existing = obj
        THEN [op |-> "None", failed |-> FALSE, server |-> apiSecret]
        ELSE IF outcome = "updateFails"
        THEN [op |-> "None", failed |-> TRUE, server |-> apiSecret]
        ELSE [op |-> "Updated", failed |-> FALSE, server |-> [apiSecret EXCEPT !.data = folded]]

\* Variants of Due: renewal only strictly before the threshold; renewal whenever
\* the expiration is known.
DueStrictlyBefore(exp, timeToUpdate) == exp # 0 /\ exp < timeToUpdate
DueWhenKnown(exp, timeToUpdate) == exp # 0

\* Line 125: renewal is due when the expiration is known and not after the threshold.
Due(exp, timeToUpdate) == exp # 0 /\ ~(exp > timeToUpdate)

\* Variant of Then: the Token is patched before the Secret is updated.
ThenPolicyFirst(step) ==
    CASE step = "RenewToken" -> "PersistPolicy"
      [] step = "PersistPolicy" -> "PersistStore"
      [] step = "PersistStore" -> "ComputeNextCheck"

\* Lines 126-160: the order of the steps of a renewal, each entered when the one
\* before it succeeded.
Then(step) ==
    CASE step = "RenewToken" -> "PersistStore"
      [] step = "PersistStore" -> "PersistPolicy"
      [] step = "PersistPolicy" -> "ComputeNextCheck"

\* Variant of ErrorResult: an error returned together with a delay.
ErrorResultWithDelay == [RequeueAfter |-> 1, Requeue |-> FALSE]

\* The ctrl.Result every error return carries (lines 64-155): ctrl.Result{}.
ErrorResult == EmptyResult

\* Variant of TokenKeyError: string(secret.Data["token"]) tested for emptiness only.
TokenKeyErrorConflated(data) ==
    IF data["token"] \in {Absent, ""} THEN "token is empty" ELSE NoError

\* Lines 76-88: the error for the Secret's data, NoError when the token is usable.
TokenKeyError(data) ==
    IF data["token"] = Absent THEN "token key not found in secret"
    ELSE IF data["token"] = "" THEN "token is empty"
    ELSE NoError

\* ProvidersManager.GetProvider on the registry reg: the handle registered under
\* the name, or the registry's not-found error and no handle.
Get(reg, name) ==
    IF reg[name] = NoProvider
    THEN [handle |-> NoProvider, err |-> "plugin not found"]
    ELSE [handle |-> reg[name], err |-> NoError]

\* ------------------------------------------------------------- the engine
\* Variant of Returned: a failed step is followed by the renewal.
ReturnedIntoRenewal == "RenewToken"

\* The position of an evaluation after a return statement before line 162: every
\* failing check returns at once (lines 64-155).
Returned == "done"

\* The work queue hands the Token to Reconcile.  With an arbitrary environment any
\* watch event may have queued it; in "prompt" only the entry the last result left.
Runnable == queue = "ready" \/ (queue = "after" /\ now >= requeueAt)

StartReconcile ==
    /\ pc = "idle"
    /\ env = "prompt" => Runnable
    /\ pc' = "GetToken"
    /\ queue' = "none"
    /\ UNCHANGED <<env, now, apiToken, apiSecret, handlerVars, muxVars, issued, requeueAt,
                   token, secret, tokenValue, validity, renewed, dueCheck,
                   result, err, events, calls, writes, trail, stored>>

\* Lines 60-65.
GetToken ==
    /\ pc = "GetToken"
    /\ trail' = Append(trail, "GetToken")
    /\ \E apiFail \in ApiFailures :
         LET e == GetError(apiToken.exists, apiFail) IN
         /\ token' = IF e = NoError
                     THEN [metadata |-> apiToken.metadata, exp |-> apiToken.exp,
                           before |-> apiToken.before]
                     ELSE token
         /\ stored' = IF e = NoError THEN apiToken.exp
                      ELSE IF e = NotFoundError THEN ReadNotFound ELSE stored
         /\ pc' = IF e = NoError THEN "GetSecret" ELSE Returned
         /\ err' = IgnoreNotFound(e)
         /\ result' = IF e = NoError THEN result ELSE ErrorResult
    /\ UNCHANGED <<env, now, apiToken, apiSecret, handlerVars, muxVars, issued, queue, requeueAt,
                   secret, tokenValue, validity, renewed, dueCheck, events, calls, writes>>

\* Lines 67-74.
GetSecret ==
    /\ pc = "GetSecret"
    /\ trail' = Append(trail, "GetSecret")
    /\ \E apiFail \in ApiFailures :
         LET e == GetError(apiSecret.exists, apiFail) IN
         /\ secret' = IF e = NoError THEN [NoSecret EXCEPT !.data = apiSecret.data] ELSE secret
         /\ pc' = IF e = NoError THEN "ReadTokenKey" ELSE Returned
         /\ err' = SecretError(e)
         /\ events' = IF e = NoError THEN events
                      ELSE Append(events, Event("Warning", "SecretNotFound"))
         /\ result' = IF e = NoError THEN result ELSE ErrorResult
    /\ UNCHANGED <<env, now, apiToken, apiSecret, handlerVars, muxVars, issued, queue, requeueAt,
                   token, tokenValue, validity, renewed, dueCheck, calls, writes, stored>>

\* Lines 76-88.
ReadTokenKey ==
    /\ pc = "ReadTokenKey"
    /\ trail' = Append(trail, "ReadTokenKey")
    /\ LET e == TokenKeyError(secret.data) IN
       /\ tokenValue' = IF secret.data["token"] = Absent THEN "" ELSE secret.data["token"]
       /\ pc' = IF e = NoError THEN "GetProvider" ELSE Returned
       /\ err' = e
       /\ events' = IF e = "token key not found in secret"
                    THEN Append(events, Event("Warning", "TokenKeyNotFound"))
                    ELSE IF e = "token is empty"
                    THEN Append(events, Event("Warning", "TokenEmpty"))
                    ELSE events
       /\ result' = IF e = NoError THEN result ELSE ErrorResult
    /\ UNCHANGED <<env, now, apiToken, apiSecret, handlerVars, muxVars, issued, queue, requeueAt,
                   token, secret, validity, renewed, dueCheck, calls, writes, stored>>

\* Variant of ProviderError: the error of the lookup is dropped.
ProviderErrorIgnored(lookup) == NoError

\* Lines 92-97: the error Reconcile returns for the result of the lookup.
ProviderError(lookup) ==
    IF lookup.err = NoError THEN NoError ELSE "unable to get provider"

\* Lines 90-99: the registry lookup, then the branch on the stored expiration.
GetProvider ==
    /\ pc = "GetProvider"
    /\ trail' = Append(trail, "GetProvider")
    /\ LET found == ProviderError(Get(registry, ProviderName)) = NoError IN
       /\ pc' = IF ~found THEN Returned
                ELSE IF token.exp = 0 THEN "GetTokenValidity" ELSE "EvaluateDue"
       /\ err' = IF found THEN NoError ELSE "unable to get provider"
       /\ events' = IF found THEN events ELSE Append(events, Event("Warning", "ProviderNotFound"))
       /\ result' = IF found THEN result ELSE ErrorResult
    /\ UNCHANGED <<env, now, apiToken, apiSecret, handlerVars, muxVars, issued, queue, requeueAt,
                   token, secret, tokenValue, validity, renewed, dueCheck, calls, writes, stored>>

\* Lines 102-107.
GetTokenValidity ==
    /\ pc = "GetTokenValidity"
    /\ trail' = Append(trail, "GetTokenValidity")
    /\ calls' = Append(calls, Call("GetTokenValidity"))
    /\ \E failed \in ProviderFailures, t \in ValidityAnswers :
         /\ validity' = IF failed THEN validity ELSE t
         /\ pc' = IF failed THEN Returned ELSE "BootstrapPatch"
         /\ err' = IF failed THEN "unable to get token validity" ELSE NoError
         /\ events' = IF failed THEN Append(events, Event("Warning", "TokenValidityError"))
                      ELSE events
         /\ result' = IF failed THEN ErrorResult ELSE result
    /\ UNCHANGED <<env, now, apiToken, apiSecret, handlerVars, muxVars, issued, queue, requeueAt,
                   token, secret, tokenValue, renewed, dueCheck, writes, stored>>

\* Lines 109-120.
BootstrapPatch ==
    /\ pc = "BootstrapPatch"
    /\ trail' = Append(trail, "BootstrapPatch")
    /\ \E outcome \in PatchOutcomes :
         LET r == CreateOrPatch([setMeta |-> FALSE, metadata |-> "", exp |-> validity], outcome) IN
         /\ apiToken' = r.server
         /\ token' = r.obj
         /\ writes' = writes \o [i \in 1..Len(r.wrote) |-> <<"Bootstrap", r.wrote[i]>>]
         /\ pc' = IF r.failed THEN Returned ELSE "EvaluateDue"
         /\ err' = IF r.failed THEN "unable to update token" ELSE NoError
         /\ events' = IF r.failed THEN Append(events, Event("Warning", "TokenUpdateError"))
                      ELSE IF r.op # "None" THEN Append(events, Event("Normal", "TokenUpdated"))
                      ELSE events
         /\ result' = IF r.failed THEN ErrorResult ELSE result
         /\ env' = EnvAfter(r.failed)
    /\ UNCHANGED <<now, apiSecret, handlerVars, muxVars, issued, queue, requeueAt,
                   secret, tokenValue, validity, renewed, dueCheck, calls, stored>>

\* Lines 122-125.
EvaluateDue ==
    /\ pc = "EvaluateDue"
    /\ trail' = Append(trail, "EvaluateDue")
    /\ LET timeToUpdate == now + token.before
           due == Due(token.exp, timeToUpdate)
       IN  /\ dueCheck' = [done |-> TRUE, at |-> now, exp |-> token.exp,
                           before |-> token.before, due |-> due]
           /\ pc' = IF due THEN "RenewToken" ELSE "ComputeNextCheck"
    /\ UNCHANGED <<env, now, apiToken, apiSecret, handlerVars, muxVars, issued, queue, requeueAt,
                   token, secret, tokenValue, validity, renewed, result, err,
                   events, calls, writes, stored>>

\* Variant of AfterRenewal: the error of RenewToken is not checked.
AfterRenewalUnchecked(failed) == Then("RenewToken")

\* Lines 128-132: a failed RenewToken returns, a successful one goes on.
AfterRenewal(failed) == IF failed THEN Returned ELSE Then("RenewToken")

\* Lines 126-134.
RenewToken ==
    /\ pc = "RenewToken"
    /\ trail' = Append(trail, "RenewToken")
    /\ calls' = Append(calls, Call("RenewToken"))
    /\ \E failed \in ProviderFailures, r \in RenewalAnswers :
         /\ renewed' = IF failed THEN renewed ELSE r
         /\ issued' = IF failed \/ env = "any" THEN issued ELSE r
         /\ pc' = AfterRenewal(failed)
         /\ err' = IF failed THEN "unable to renew token" ELSE NoError
         /\ events' = IF failed THEN Append(events, Event("Warning", "TokenRenewalError"))
                      ELSE events
         /\ result' = IF failed THEN ErrorResult ELSE result
    /\ UNCHANGED <<env, now, apiToken, apiSecret, handlerVars, muxVars, queue, requeueAt,
                   token, secret, tokenValue, validity, dueCheck, writes, stored>>

\* Variant of AfterStore: the error of the Secret's write is not checked.
AfterStoreUnchecked(failed) == Then("PersistStore")

\* Lines 141-145: a failed write of the Secret returns, a successful one goes on.
AfterStore(failed) == IF failed THEN Returned ELSE Then("PersistStore")

\* Lines 136-146.
PersistStore ==
    /\ pc = "PersistStore"
    /\ trail' = Append(trail, "PersistStore")
    /\ \E outcome \in UpdateOutcomes :
         LET r == CreateOrUpdate(renewed.token, outcome) IN
         /\ apiSecret' = r.server
         /\ writes' = IF r.op = "None" THEN writes ELSE Append(writes, <<"PersistStore", "secret">>)
         /\ pc' = AfterStore(r.failed)
         /\ err' = IF r.failed THEN "unable to update secret" ELSE NoError
         /\ events' = IF r.failed THEN Append(events, Event("Warning", "SecretUpdateError"))
                      ELSE IF r.op # "None" THEN Append(events, Event("Normal", "SecretUpdated"))
                      ELSE events
         /\ result' = IF r.failed THEN ErrorResult ELSE result
    /\ UNCHANGED <<env, now, apiToken, handlerVars, muxVars, issued, queue, requeueAt,
                   token, secret, tokenValue, validity, renewed, dueCheck, calls, stored>>

\* Variant of PolicyMutation: only the status is set.
PolicyMutationStatusOnly == [setMeta |-> FALSE, metadata |-> "", exp |-> renewed.exp]

\* Lines 150-151: the mutate function of the Token's CreateOrPatch.
PolicyMutation == [setMeta |-> TRUE, metadata |-> renewed.metadata, exp |-> renewed.exp]

\* Lines 148-160.
PersistPolicy ==
    /\ pc = "PersistPolicy"
    /\ trail' = Append(trail, "PersistPolicy")
    /\ \E outcome \in PatchOutcomes :
         LET r == CreateOrPatch(PolicyMutation, outcome) IN
         /\ apiToken' = r.server
         /\ token' = r.obj
         /\ writes' = writes \o [i \in 1..Len(r.wrote) |-> <<"PersistPolicy", r.wrote[i]>>]
         /\ pc' = IF r.failed THEN Returned ELSE Then("PersistPolicy")
         /\ err' = IF r.failed THEN "unable to update token" ELSE NoError
         /\ events' = IF r.failed THEN Append(events, Event("Warning", "TokenUpdateError"))
                      ELSE IF r.op # "None" THEN Append(events, Event("Normal", "TokenUpdated"))
                      ELSE events
         /\ result' = IF r.failed THEN ErrorResult ELSE result
         /\ env' = EnvAfter(r.failed)
    /\ UNCHANGED <<now, apiSecret, handlerVars, muxVars, issued, queue, requeueAt,
                   secret, tokenValue, validity, renewed, dueCheck, calls, stored>>

\* Variant of Until: the delay up to the expiration itself.
UntilExpiration(exp, before, t) == exp - t

\* Line 163: time.Until(ExpirationTime.Add(-BeforeDuration)) with the clock at t.
Until(exp, before, t) == (exp - before) - t

\* Lines 162-164: time.Until reads the clock again.
ComputeNextCheck ==
    /\ pc = "ComputeNextCheck"
    /\ trail' = Append(trail, "ComputeNextCheck")
    /\ result' = [RequeueAfter |-> Until(token.exp, token.before, now), Requeue |-> FALSE]
    /\ err' = NoError
    /\ pc' = "done"
    /\ UNCHANGED <<env, now, apiToken, apiSecret, handlerVars, muxVars, issued, queue, requeueAt,
                   token, secret, tokenValue, validity, renewed, dueCheck,
                   events, calls, writes, stored>>

\* Reconcile has returned: the controller's work queue acts on (result, err).
\* An error is retried with rate limiting, a positive RequeueAfter is queued for
\* that delay, Requeue is queued at once, anything else is forgotten.
Finish ==
    /\ pc = "done"
    /\ pc' = "idle"
    /\ queue' = IF err # NoError THEN "ready"
                ELSE IF result.RequeueAfter > 0 THEN "after"
                ELSE IF result.Requeue THEN "ready"
                ELSE "none"
    /\ requeueAt' = IF err = NoError /\ result.RequeueAfter > 0
                    THEN now + result.RequeueAfter ELSE 0
    /\ token' = NoToken
    /\ secret' = NoSecret
    /\ tokenValue' = ""
    /\ validity' = 0
    /\ renewed' = NoRenewal
    /\ dueCheck' = NoDueCheck
    /\ result' = EmptyResult
    /\ err' = NoError
    /\ events' = <<>>
    /\ calls' = <<>>
    /\ writes' = <<>>
    /\ trail' = <<>>
    /\ stored' = NotRead
    /\ UNCHANGED <<env, now, apiToken, apiSecret, handlerVars, muxVars, issued>>

\* ------------------------------------------------------ the environment acts
\* The clock advances.  Reconcile reads it at lines 123 and 163 only, so an advance
\* during an evaluation is shown where it can matter: between evaluations and
\* between the due check and time.Until.  In "prompt" an evaluation takes no time
\* and starts as soon as its queue entry is due.  A timer fires no later than the
\* instant it is set for.
Tick ==
    /\ now < MaxTime
    /\ pc \in {"idle", "ComputeNextCheck"}
    /\ env = "prompt" => (pc = "idle" /\ ~Runnable)
    /\ \A c \in CallerIds :
         (rpcs[c].state = "blocked" /\ rpcs[c].deadline # 0) => now < rpcs[c].deadline
    /\ (facade.state = "blocked" /\ facade.deadline # 0) => now < facade.deadline
    /\ now' = now + 1
    /\ UNCHANGED <<env, apiToken, apiSecret, handlerVars, muxVars, issued, queue, requeueAt, engineVars>>

\* The manager cancels the context its reconcilers run with (shutdown), at any
\* point of an evaluation.
Cancel ==
    /\ env = "cancellable"
    /\ env' = "cancelled"
    /\ UNCHANGED <<now, apiToken, apiSecret, handlerVars, muxVars, issued, queue, requeueAt,
                   engineVars>>

DeleteToken ==
    /\ apiToken.exists
    /\ apiToken' = [apiToken EXCEPT !.exists = FALSE]
    /\ UNCHANGED <<env, now, apiSecret, handlerVars, muxVars, issued, queue, requeueAt, engineVars>>

DeleteSecret ==
    /\ apiSecret.exists
    /\ apiSecret' = [apiSecret EXCEPT !.exists = FALSE]
    /\ UNCHANGED <<env, now, apiToken, handlerVars, muxVars, issued, queue, requeueAt, engineVars>>

\* ------------------------------------------------- the stream handler
\* Streams the specification follows: every stream when it is about the handler and
\* the multiplexer, one stream when it is about the engine, which sees no more of a
\* stream than whether the registry resolves the provider name.
SessionLimit == IF env = "mux" THEN MaxSessions ELSE 1

\* Variant of registerPlugin: the handler does not track the name.
registerPluginUntracked(name, s) ==
    /\ activePlugins' = activePlugins
    /\ registry' = [registry EXCEPT ![name] = s]

\* Variant of registerPlugin: a name that is registered keeps its first handle.
registerPluginKeepFirst(name, s) ==
    /\ activePlugins' = activePlugins \cup {name}
    /\ registry' = [registry EXCEPT ![name] = IF @ = NoProvider THEN s ELSE @]

\* StreamHandler.registerPlugin, server.go lines 177-183.
registerPlugin(name, s) ==
    /\ activePlugins' = activePlugins \cup {name}
    /\ registry' = [registry EXCEPT ![name] = s]

\* Variant of unregisterPlugin: the name leaves the handler's set only.
unregisterPluginHandlerOnly(name) ==
    /\ activePlugins' = activePlugins \ {name}
    /\ registry' = registry

\* StreamHandler.unregisterPlugin, server.go lines 185-191.
unregisterPlugin(name) ==
    /\ activePlugins' = activePlugins \ {name}
    /\ registry' = [registry EXCEPT ![name] = NoProvider]

\* Variant of Accepting: streams are accepted whatever the server's state.
AcceptingAlways == TRUE

\* StreamServer.Start / Stop, server.go lines 79-96: streams are accepted from Serve
\* until GracefulStop closes the listener and drains the transports.
Accepting == server = "serving"

\* Variant of HandshakeError: only a malformed frame is rejected.
HandshakeErrorMalformedOnly(frame) ==
    IF ~frame.ok THEN "invalid registration frame" ELSE NoError

\* stream.NewStreamManager: the error for the first frame of a stream, NoError when
\* it declares a plugin name.
HandshakeError(frame) ==
    IF ~frame.ok THEN "invalid registration frame"
    ELSE IF frame.name = "" THEN "plugin name is empty"
    ELSE NoError

\* PluginStream, server.go lines 142-150: NewStreamManager reads the registration
\* frame; on an error the handler returns it and nothing is registered.
NewStreamManager(s) ==
    /\ Accepting
    /\ s <= SessionLimit
    /\ sessions[s].state = "none"
    /\ \A r \in SessionIds : r < s => sessions[r].state # "none"
    /\ \E frame \in Frames :
         sessions' = [sessions EXCEPT ![s] =
                        IF HandshakeError(frame) # NoError
                        THEN [state |-> "rejected", name |-> ""]
                        ELSE [state |-> "handshaken", name |-> frame.name]]
    /\ UNCHANGED <<env, now, apiToken, apiSecret, server, activePlugins, registry, muxVars,
                   issued, queue, requeueAt, engineVars>>

\* PluginStream, server.go lines 152-164: the wrapper is registered under the name
\* the handshake gave.
PluginStream(s) ==
    /\ sessions[s].state = "handshaken"
    /\ sessions' = [sessions EXCEPT ![s].state = "live"]
    /\ registerPlugin(sessions[s].name, s)
    /\ UNCHANGED <<env, now, apiToken, apiSecret, server, muxVars, issued, queue, requeueAt, engineVars>>

\* The correlation table of a stream is a set of entries [id, caller]; as a map
\* keyed by id, storing under an id that is present replaces the entry.
Entries(s, ids) == {e \in outstanding[s] : e.id \in ids}
Store(s, id, c) == (outstanding[s] \ Entries(s, {id})) \cup {[id |-> id, caller |-> c]}

\* Remove the entries `gone` from the table of their stream and put `what` on the
\* channel of each caller they name (the channel is buffered: this never blocks).
Deliver(table, gone, what) ==
    [c \in CallerIds |->
        IF \E e \in gone : e.caller = c
        THEN [table[c] EXCEPT !.chan = IF @ = ChanEmpty THEN what ELSE @,
                              !.removed = @ + 1]
        ELSE table[c]]

\* PluginStream, server.go lines 172-174: ListenForMessages returns because the
\* stream was closed by either side, its context was cancelled or a frame did not
\* decode.  The multiplexer is dead: every outstanding call is failed.
ListenForMessagesReturns(s) ==
    /\ sessions[s].state = "live"
    /\ sessions' = [sessions EXCEPT ![s].state = "closing"]
    /\ rpcs' = Deliver(rpcs, outstanding[s], ChanClosed)
    /\ outstanding' = [outstanding EXCEPT ![s] = {}]
    /\ inbox' = [inbox EXCEPT ![s] = {}]
    /\ UNCHANGED <<facade, discovery, linode, env, now, apiToken, apiSecret, server, activePlugins, registry, nextID,
                   issued, queue, requeueAt, engineVars>>

\* PluginStream, server.go lines 167-170: the deferred unregisterPlugin.
PluginStreamReturns(s) ==
    /\ sessions[s].state = "closing"
    /\ sessions' = [sessions EXCEPT ![s].state = "ended"]
    /\ unregisterPlugin(sessions[s].name)
    /\ UNCHANGED <<env, now, apiToken, apiSecret, server, muxVars, issued, queue, requeueAt, engineVars>>

\* StreamHandler.DropAll, server.go lines 194-202: the registry without the names
\* the handler tracks.
DropAll ==
    /\ registry' = [n \in DOMAIN registry |->
                      IF n \in activePlugins THEN NoProvider ELSE registry[n]]
    /\ activePlugins' = {}

\* Whether every PluginStream handler has returned: GracefulStop returns when the
\* connections are gone and the handlers have exited.
Drained == \A s \in SessionIds : sessions[s].state \in {"none", "rejected", "ended"}

\* StreamServer.Stop, server.go lines 91-96: GracefulStop is entered.
StopBegins ==
    /\ env = "mux"
    /\ server = "serving"
    /\ server' = "stopping"
    /\ UNCHANGED <<env, now, apiToken, apiSecret, sessions, activePlugins, registry, muxVars,
                   issued, queue, requeueAt, engineVars>>

\* StreamServer.Stop, server.go lines 96-108: GracefulStop has returned, the
\* listener is closed and DropAll runs.
StopReturns ==
    /\ server = "stopping"
    /\ Drained
    /\ server' = "stopped"
    /\ DropAll
    /\ UNCHANGED <<env, now, apiToken, apiSecret, sessions, muxVars,
                   issued, queue, requeueAt, engineVars>>

\* ------------------------------------------------ the stream multiplexer
\* StreamManager.CallRPC, ListenForMessages and the plugin's side of the stream.

\* A fresh correlation id: ids of a stream increase.
AllocateID(s) == nextID[s]

\* The deadline of a call issued now.
Deadline == now + TimeoutTicks

\* StreamPluginClient.RenewToken / GetTokenValidity, server.go lines 262-305, call
\* CallRPC on the stream the handle wraps; the handle came from the registry at
\* some earlier time, so the stream may have ended since.
CallRPC(c, s) ==
    /\ env \in {"mux", "facade"}
    /\ rpcs[c].state = "unused"
    /\ \A d \in CallerIds : d < c => rpcs[d].state # "unused"
    /\ sessions[s].state \in {"live", "closing", "ended"}
    /\ IF sessions[s].state = "live"
       THEN LET id == AllocateID(s) IN
            /\ id <= MaxCalls
            /\ nextID' = [nextID EXCEPT ![s] = @ + 1]
            /\ outstanding' = [outstanding EXCEPT ![s] = Store(s, id, c)]
            /\ rpcs' = [rpcs EXCEPT ![c] = [NoRpc EXCEPT !.state = "blocked", !.sess = s,
                                             !.id = id, !.deadline = Deadline]]
       ELSE /\ rpcs' = [rpcs EXCEPT ![c] = [NoRpc EXCEPT !.state = "returned", !.sess = s,
                                             !.outcome = "disconnect"]]
            /\ UNCHANGED <<nextID, outstanding>>
    /\ UNCHANGED <<facade, discovery, linode, env, now, apiToken, apiSecret, handlerVars, inbox,
                   issued, queue, requeueAt, engineVars>>

\* The plugin sends a response frame for a request it has received: in any order,
\* after any delay, possibly once more.
PluginResponds(s, id) ==
    /\ sessions[s].state = "live"
    /\ id \in 1..(nextID[s] - 1)
    /\ id \notin inbox[s]
    /\ inbox' = [inbox EXCEPT ![s] = @ \cup {id}]
    /\ UNCHANGED <<facade, discovery, linode, env, now, apiToken, apiSecret, handlerVars, nextID, outstanding, rpcs,
                   issued, queue, requeueAt, engineVars>>

\* Variant of Matching: the frame completes the oldest outstanding call.
MatchingOldest(s, id) ==
    {e \in outstanding[s] : \A f \in outstanding[s] : e.id <= f.id}

\* The entries the reader loop completes with the frame carrying correlation id `id`.
Matching(s, id) == Entries(s, {id})

\* The reader loop decodes one frame: the matching outstanding call is removed and
\* gets the payload; a frame for an id that is not outstanding is dropped.
Dispatch(s, id) ==
    /\ sessions[s].state = "live"
    /\ id \in inbox[s]
    /\ inbox' = [inbox EXCEPT ![s] = @ \ {id}]
    /\ LET gone == Matching(s, id) IN
       /\ outstanding' = [outstanding EXCEPT ![s] = @ \ gone]
       /\ rpcs' = Deliver(rpcs, gone, id)
    /\ UNCHANGED <<facade, discovery, linode, env, now, apiToken, apiSecret, handlerVars, nextID,
                   issued, queue, requeueAt, engineVars>>

\* The blocked caller receives from its response channel.
CallReturns(c) ==
    /\ rpcs[c].state = "blocked"
    /\ rpcs[c].chan # ChanEmpty
    /\ rpcs' = [rpcs EXCEPT ![c].state = "returned",
                            ![c].outcome = IF rpcs[c].chan = ChanClosed
                                           THEN "disconnect" ELSE "response",
                            ![c].payload = IF rpcs[c].chan = ChanClosed THEN 0 ELSE rpcs[c].chan]
    /\ UNCHANGED <<facade, discovery, linode, env, now, apiToken, apiSecret, handlerVars, nextID, outstanding, inbox,
                   issued, queue, requeueAt, engineVars>>

\* Variant of Expired: the timer leaves the entry in the table.
ExpiredKept(c) == {}

\* The entries the timer of caller c removes: the caller's own, if still there.
Expired(c) == {e \in outstanding[rpcs[c].sess] : e.caller = c}

\* The timer of the blocked caller fires: its entry is removed and it returns a
\* timeout error (a response that reached the channel in the meantime stays there).
CallTimesOut(c) ==
    /\ rpcs[c].state = "blocked"
    /\ rpcs[c].deadline # 0
    /\ now >= rpcs[c].deadline
    /\ LET s == rpcs[c].sess
           gone == Expired(c)
       IN  /\ outstanding' = [outstanding EXCEPT ![s] = @ \ gone]
           /\ rpcs' = [rpcs EXCEPT ![c].state = "returned",
                                   ![c].outcome = "timeout",
                                   ![c].removed = @ + Cardinality(gone)]
    /\ UNCHANGED <<facade, discovery, linode, env, now, apiToken, apiSecret, handlerVars, nextID, inbox,
                   issued, queue, requeueAt, engineVars>>

\* ------------------------------------------------ the direct-unary facades
\* shared.GRPCClient and pluginserver.PluginClient call the plugin's unary service
\* with a context; a context without a deadline is deadline 0.
NoFacadeCall == [state |-> "unused", impl |-> "", deadline |-> 0, outcome |-> "none"]
UnaryFacades == {"GRPCClient", "PluginClient"}

\* context.WithTimeout(ctx, 30*time.Second): the earlier of the parent's deadline
\* and now + timeout.
WithTimeout(ctxDeadline, timeout) ==
    IF ctxDeadline # 0 /\ ctxDeadline < now + timeout THEN ctxDeadline ELSE now + timeout

\* The 30 seconds of shared/grpc.go lines 19 and 33, in ticks.
GRPCClientTimeout == TimeoutTicks

\* The deadline of the context the facade hands to the gRPC client: GRPCClient
\* (shared/grpc.go lines 17-43) derives one, PluginClient (server.go lines 222-250)
\* passes the caller's.
CallContext(impl, ctxDeadline) ==
    IF impl = "GRPCClient" THEN WithTimeout(ctxDeadline, GRPCClientTimeout) ELSE ctxDeadline

\* RenewToken / GetTokenValidity of a direct-unary facade is called; Reconcile's
\* context has no deadline, another caller's may have one.
UnaryCall(impl, ctxDeadline) ==
    /\ env = "facade"
    /\ facade.state = "unused"
    /\ facade' = [NoFacadeCall EXCEPT !.state = "blocked", !.impl = impl,
                                      !.deadline = CallContext(impl, ctxDeadline)]
    /\ UNCHANGED <<env, now, apiToken, apiSecret, handlerVars, nextID, outstanding, inbox, rpcs,
                   discovery, linode, issued, queue, requeueAt, engineVars>>

\* The plugin answers the unary call (a plugin that never answers never does).
UnaryAnswers ==
    /\ facade.state = "blocked"
    /\ facade' = [facade EXCEPT !.state = "returned", !.outcome = "response"]
    /\ UNCHANGED <<env, now, apiToken, apiSecret, handlerVars, nextID, outstanding, inbox, rpcs,
                   discovery, linode, issued, queue, requeueAt, engineVars>>

\* The deadline of the call's context passes: the gRPC client returns
\* DeadlineExceeded.
UnaryDeadlineExceeded ==
    /\ facade.state = "blocked"
    /\ facade.deadline # 0
    /\ now >= facade.deadline
    /\ facade' = [facade EXCEPT !.state = "returned", !.outcome = "timeout"]
    /\ UNCHANGED <<env, now, apiToken, apiSecret, handlerVars, nextID, outstanding, inbox, rpcs,
                   discovery, linode, issued, queue, requeueAt, engineVars>>

\* ------------------------------------------------------- socket discovery
\* File names are sequences of characters; Chars lists the characters in byte order.
Chars == <<".", "a", "b", "c", "e", "k", "o", "s", "t">>
Code(ch) == CHOOSE i \in 1..Len(Chars) : Chars[i] = ch

SockSuffix == <<".", "s", "o", "c", "k">>
SocketSuffix == <<".", "s", "o", "c", "k", "e", "t">>

RECURSIVE StemsOfLength(_)
StemsOfLength(n) ==
    IF n = 0 THEN {<<>>}
    ELSE {<<ch>> \o st : ch \in {"a", "b"}, st \in StemsOfLength(n - 1)}

\* The files a plugin directory may hold: short names ending in .sock or .socket.
FileNames ==
    {st \o ext : st \in UNION {StemsOfLength(n) : n \in 0..MaxStem},
                  ext \in {SockSuffix, SocketSuffix}}
\* The directories of at most n files.
RECURSIVE DirectoriesUpTo(_)
DirectoriesUpTo(n) ==
    IF n = 0 THEN {{}}
    ELSE LET smaller == DirectoriesUpTo(n - 1)
         IN  smaller \cup {d \cup {f} : d \in smaller, f \in FileNames}
Directories == DirectoriesUpTo(MaxFiles)

\* Byte-wise order of strings, as sort.Strings in filepath.Glob.
RECURSIVE Less(_, _)
Less(x, y) ==
    IF x = <<>> THEN y # <<>>
    ELSE IF y = <<>> THEN FALSE
    ELSE IF Head(x) # Head(y) THEN Code(Head(x)) < Code(Head(y))
    ELSE Less(Tail(x), Tail(y))

RECURSIVE Sorted(_)
Sorted(names) ==
    IF names = {} THEN <<>>
    ELSE LET first == CHOOSE x \in names : \A y \in names \ {x} : Less(x, y)
         IN  <<first>> \o Sorted(names \ {first})

HasSuffix(name, suffix) ==
    /\ Len(name) >= Len(suffix)
    /\ SubSeq(name, Len(name) - Len(suffix) + 1, Len(name)) = suffix

\* Line 330: filepath.Glob(filepath.Join(dir, "*.sock")), the matches in order;
\* '*' matches any run of characters of a file name, the empty one included.
Glob(dir) == Sorted({f \in dir : HasSuffix(f, SockSuffix)})

\* Line 339: socketName[:len(socketName)-len(".socket")] panics when the upper
\* bound of the slice is negative.
SlicePanics(socketName) == Len(socketName) - Len(SocketSuffix) < 0
PluginNameOf(socketName) == SubSeq(socketName, 1, Len(socketName) - Len(SocketSuffix))

NoDiscovery == [dir |-> {}, outcome |-> "none", plugins |-> {}, err |-> NoError]

\* Lines 335-348: the loop over the matches.  plugins is the map built so far, as
\* a set of [name, socket]; grpc.NewClient fails for the sockets in `refused`.
RECURSIVE DiscoverLoop(_, _, _)
DiscoverLoop(sockets, plugins, refused) ==
    IF sockets = <<>>
    THEN [outcome |-> "returned", plugins |-> plugins, err |-> NoError]
    ELSE LET socketName == Head(sockets) IN
         IF SlicePanics(socketName)
         THEN [outcome |-> "panic", plugins |-> {}, err |-> NoError]
         ELSE IF socketName \in refused
         THEN [outcome |-> "returned", plugins |-> {}, err |-> "grpc.NewClient failed"]
         ELSE LET pluginName == PluginNameOf(socketName) IN
              DiscoverLoop(Tail(sockets),
                           {q \in plugins : q.name # pluginName}
                               \cup {[name |-> pluginName, socket |-> socketName]},
                           refused)

\* DiscoverPlugins, server.go lines 320-349, on a directory holding the files dir;
\* the manager calls it once, at start.
DiscoverPlugins(dir) ==
    /\ env = "discover"
    /\ discovery.outcome = "none"
    /\ \E refused \in SUBSET dir :
         LET r == DiscoverLoop(Glob(dir), {}, refused) IN
         discovery' = [dir |-> dir, outcome |-> r.outcome, plugins |-> r.plugins,
                       err |-> r.err]
    /\ UNCHANGED <<env, now, apiToken, apiSecret, handlerVars, nextID, outstanding, inbox, rpcs,
                   facade, linode, issued, queue, requeueAt, engineVars>>

\* ------------------------------------------------------- the Linode plugin
\* Metadata strings are sequences of characters.  Go's int is scaled to IntBits bits.
IntMax == 2^(IntBits - 1) - 1
IntMin == -(2^(IntBits - 1))

Digits == <<"0", "1", "2", "3", "4", "5", "6", "7", "8", "9">>
IsDigit(ch) == \E d \in 1..Len(Digits) : Digits[d] = ch
DigitValue(ch) == (CHOOSE d \in 1..Len(Digits) : Digits[d] = ch) - 1

RECURSIVE DecimalValue(_)
DecimalValue(ds) ==
    IF ds = <<>> THEN 0
    ELSE 10 * DecimalValue(SubSeq(ds, 1, Len(ds) - 1)) + DigitValue(ds[Len(ds)])

\* Variant of Atoi: a sign is not accepted.
AtoiUnsigned(str) ==
    IF str = <<>> \/ \E i \in 1..Len(str) : ~IsDigit(str[i])
    THEN [n |-> 0, err |-> "invalid syntax"]
    ELSE IF DecimalValue(str) > IntMax
    THEN [n |-> IntMax, err |-> "value out of range"]
    ELSE [n |-> DecimalValue(str), err |-> NoError]

\* strconv.Atoi: an optional sign, then one or more decimal digits, of a value an
\* int can hold.
Atoi(str) ==
    LET signed == str # <<>> /\ Head(str) \in {"-", "+"}
        ds == IF signed THEN Tail(str) ELSE str
        n == IF signed /\ Head(str) = "-" THEN -DecimalValue(ds) ELSE DecimalValue(ds)
    IN  IF ds = <<>> \/ \E i \in 1..Len(ds) : ~IsDigit(ds[i])
        THEN [n |-> 0, err |-> "invalid syntax"]
        ELSE IF n > IntMax THEN [n |-> IntMax, err |-> "value out of range"]
        ELSE IF n < IntMin THEN [n |-> IntMin, err |-> "value out of range"]
        ELSE [n |-> n, err |-> NoError]

\* strconv.Itoa.
RECURSIVE ItoaNat(_)
ItoaNat(n) ==
    IF n < 10 THEN <<Digits[n + 1]>>
    ELSE ItoaNat(n \div 10) \o <<Digits[(n % 10) + 1]>>
Itoa(n) == IF n < 0 THEN <<"-">> \o ItoaNat(-n) ELSE ItoaNat(n)

\* LinodePlugin.metadataToID, linode.go lines 108-110.
metadataToID(meta) == Atoi(meta)

\* The metadata strings the plugin is called with.
MetaChars == {"-", "+", "0", "1", "6", "a"}
RECURSIVE MetadataOfLength(_)
MetadataOfLength(n) ==
    IF n = 0 THEN {<<>>}
    ELSE {<<ch>> \o m : ch \in MetaChars, m \in MetadataOfLength(n - 1)}
MetadataStrings == UNION {MetadataOfLength(n) : n \in 0..MaxMetaLen}

\* A token of the account: its id, which also stands for its secret value, and its
\* expiry (NoExpiry for a token that does not expire).
NoExpiry == 0
NoTime == 0
NoLinodeCall == [method |-> "none", meta |-> <<>>, token |-> 0, outcome |-> "none",
                 err |-> NoError, newToken |-> 0, newMetadata |-> <<>>,
                 exp |-> NoTime, log |-> <<>>, before |-> {}]
NoLinode == [tokens |-> {}, last |-> NoLinodeCall]

TokenIds(tokens) == {t.id : t \in tokens}
\* The Linode API serves a request made with the secret of a token of the account.
Authenticated(tokens, tok) == tok \in TokenIds(tokens)
\* The id the API gives to the next token it creates.
FreshId(tokens) ==
    1 + (CHOOSE m \in TokenIds(tokens) \cup {0} : \A t \in tokens : t.id <= m)

ApiCall(name, id) == [call |-> name, id |-> id]

\* What renewToken returns and leaves in the account.
LinodeFailure(e, log, left) ==
    [err |-> e, newToken |-> 0, newMetadata |-> <<>>, exp |-> NoTime,
     log |-> log, tokens |-> left]
LinodeRenewed(newId, expireTime, log, left) ==
    [err |-> NoError, newToken |-> newId, newMetadata |-> Itoa(newId),
     exp |-> expireTime, log |-> log, tokens |-> left]

\* Variant of renewToken: the old token is deleted before the new one is created.
renewTokenDeleteFirst(tokens, meta, tok, fail) ==
    LET id == metadataToID(meta)
        newId == FreshId(tokens)
        expireTime == now + Day
        getToken == <<ApiCall("GetToken", id.n)>>
        deleteToken == getToken \o <<ApiCall("DeleteToken", id.n)>>
        createToken == deleteToken \o <<ApiCall("CreateToken", newId)>>
        deleted == {t \in tokens : t.id # id.n}
    IN  IF id.err # NoError
        THEN LinodeFailure("invalid metadata", <<>>, tokens)
        ELSE IF fail.get \/ ~Authenticated(tokens, tok) \/ id.n \notin TokenIds(tokens)
        THEN LinodeFailure("failed to get token", getToken, tokens)
        ELSE IF fail.delete
        THEN LinodeFailure("failed to delete old token", deleteToken, tokens)
        ELSE IF fail.create
        THEN LinodeFailure("failed to create token", createToken, deleted)
        ELSE LinodeRenewed(newId, expireTime, createToken,
                           deleted \cup {[id |-> newId, expiry |-> expireTime]})

\* LinodePlugin.renewToken, linode.go lines 51-81, on the account tokens, called
\* with the secret tok, when the API fails the requests named in fail.
renewToken(tokens, meta, tok, fail) ==
    LET id == metadataToID(meta)
        newId == FreshId(tokens)
        expireTime == now + Day
        getToken == <<ApiCall("GetToken", id.n)>>
        createToken == getToken \o <<ApiCall("CreateToken", newId)>>
        deleteToken == createToken \o <<ApiCall("DeleteToken", id.n)>>
        created == tokens \cup {[id |-> newId, expiry |-> expireTime]}
    IN  IF id.err # NoError
        THEN LinodeFailure("invalid metadata", <<>>, tokens)
        ELSE IF fail.get \/ ~Authenticated(tokens, tok) \/ id.n \notin TokenIds(tokens)
        THEN LinodeFailure("failed to get token", getToken, tokens)
        ELSE IF fail.create
        THEN LinodeFailure("failed to create token", createToken, tokens)
        ELSE IF fail.delete
        THEN LinodeFailure("failed to delete old token", deleteToken, created)
        ELSE LinodeRenewed(newId, expireTime, deleteToken,
                           {t \in created : t.id # id.n})

\* Lines 102-105: the expiration reported for a token without expiry.
DefaultExpiry == now + TenYears

\* LinodePlugin.getTokenValidity, linode.go lines 84-106.
getTokenValidity(tokens, meta, tok, fail) ==
    LET id == metadataToID(meta)
        oldToken == CHOOSE t \in tokens : t.id = id.n
    IN  IF id.err # NoError
        THEN [err |-> "invalid metadata", exp |-> NoTime, log |-> <<>>]
        ELSE IF fail.get \/ ~Authenticated(tokens, tok) \/ id.n \notin TokenIds(tokens)
        THEN [err |-> "failed to get token", exp |-> NoTime,
              log |-> <<ApiCall("GetToken", id.n)>>]
        ELSE [err |-> NoError,
              exp |-> IF oldToken.expiry # NoExpiry THEN oldToken.expiry ELSE DefaultExpiry,
              log |-> <<ApiCall("GetToken", id.n)>>]

\* A server wrapper builds its response from (expiration, err): an error is
\* returned as it is, otherwise the expiration is dereferenced, which panics for nil
\* (linode.go lines 38-48, 24-36; shared/grpc.go lines 53-72).
WrapperOutcome(exp, e) ==
    IF e # NoError THEN "error" ELSE IF exp = NoTime THEN "panic" ELSE "ok"

ApiFailureChoices == [get : BOOLEAN, create : BOOLEAN, delete : BOOLEAN]

\* LinodePlugin.RenewToken, linode.go lines 24-36.
LinodeRenewToken(meta, tok) ==
    /\ env = "linode"
    /\ linode.last.method = "none"
    /\ \E fail \in ApiFailureChoices :
         LET r == renewToken(linode.tokens, meta, tok, fail) IN
         linode' = [tokens |-> r.tokens,
                    last |-> [method |-> "RenewToken", meta |-> meta, token |-> tok,
                              outcome |-> WrapperOutcome(r.exp, r.err), err |-> r.err,
                              newToken |-> r.newToken, newMetadata |-> r.newMetadata,
                              exp |-> r.exp, log |-> r.log, before |-> linode.tokens]]
    /\ UNCHANGED <<env, now, apiToken, apiSecret, handlerVars, nextID, outstanding, inbox, rpcs,
                   facade, discovery, issued, queue, requeueAt, engineVars>>

\* LinodePlugin.GetTokenValidity, linode.go lines 38-48.
LinodeGetTokenValidity(meta, tok) ==
    /\ env = "linode"
    /\ linode.last.method = "none"
    /\ \E fail \in [get : BOOLEAN, create : {FALSE}, delete : {FALSE}] :
         LET r == getTokenValidity(linode.tokens, meta, tok, fail) IN
         linode' = [linode EXCEPT !.last =
                      [NoLinodeCall EXCEPT !.method = "GetTokenValidity", !.meta = meta,
                                           !.token = tok,
                                           !.outcome = WrapperOutcome(r.exp, r.err),
                                           !.err = r.err, !.exp = r.exp, !.log = r.log,
                                           !.before = linode.tokens]]
    /\ UNCHANGED <<env, now, apiToken, apiSecret, handlerVars, nextID, outstanding, inbox, rpcs,
                   facade, discovery, issued, queue, requeueAt, engineVars>>

\* GRPCServer.GetTokenValidity, shared/grpc.go lines 64-72, over an implementation
\* of TokenProvider that returns (exp, e): any pointer, nil included, with any error.
GRPCServerGetTokenValidity(exp, e) ==
    /\ env = "linode"
    /\ linode.last.method = "none"
    /\ linode' = [linode EXCEPT !.last =
                     [NoLinodeCall EXCEPT !.method = "GRPCServer.GetTokenValidity",
                                          !.outcome = WrapperOutcome(exp, e),
                                          !.err = e,
                                          !.exp = IF e = NoError THEN exp ELSE NoTime,
                                          !.before = linode.tokens]]
    /\ UNCHANGED <<env, now, apiToken, apiSecret, handlerVars, nextID, outstanding, inbox, rpcs,
                   facade, discovery, issued, queue, requeueAt, engineVars>>

\* ---------------------------------------------------------- specifications
\* No evaluation has run; the Token is queued by its first watch event.
InitEvaluation ==
    /\ queue = "ready"
    /\ requeueAt = 0
    /\ pc = "idle"
    /\ token = NoToken
    /\ secret = NoSecret
    /\ tokenValue = ""
    /\ validity = 0
    /\ renewed = NoRenewal
    /\ dueCheck = NoDueCheck
    /\ result = EmptyResult
    /\ err = NoError
    /\ events = <<>>
    /\ calls = <<>>
    /\ writes = <<>>
    /\ trail = <<>>
    /\ stored = NotRead

InitObjects ==
    /\ now = 1
    /\ \E b \in 0..MaxBefore :
         apiToken = [exists |-> TRUE, metadata |-> "m1", exp |-> 0, before |-> b]
    /\ \E v \in {Absent, "", "t1"} :
         apiSecret = [exists |-> TRUE, data |-> [k \in {"token", "other"} |->
                                                   IF k = "token" THEN v ELSE "x"]]
    /\ InitEvaluation

InitHandler ==
    /\ server = "serving"
    /\ sessions = [s \in SessionIds |-> NoSession]
    /\ activePlugins = {}
    /\ registry = [n \in DeclaredNames |-> NoProvider]
    /\ nextID = [s \in SessionIds |-> 1]
    /\ outstanding = [s \in SessionIds |-> {}]
    /\ inbox = [s \in SessionIds |-> {}]
    /\ rpcs = [c \in CallerIds |-> NoRpc]
    /\ facade = NoFacadeCall
    /\ discovery = NoDiscovery
    /\ linode = NoLinode

Init ==
    /\ env = "any"
    /\ issued = NoCredential
    /\ InitHandler
    /\ InitObjects

Reconcile ==
    \/ StartReconcile \/ GetToken \/ GetSecret \/ ReadTokenKey \/ GetProvider
    \/ GetTokenValidity \/ BootstrapPatch \/ EvaluateDue \/ RenewToken
    \/ PersistStore \/ PersistPolicy \/ ComputeNextCheck \/ Finish

Next ==
    \/ Reconcile
    \/ Tick \/ DeleteToken \/ DeleteSecret
    \/ \E s \in SessionIds : NewStreamManager(s)
    \/ \E s \in SessionIds : PluginStream(s)
    \/ \E s \in SessionIds : ListenForMessagesReturns(s)
    \/ \E s \in SessionIds : PluginStreamReturns(s)

Spec == Init /\ [][Next]_vars

\* The handler and the multiplexer with their callers; no evaluation runs.
InitMux ==
    /\ env = "mux"
    /\ issued = NoCredential
    /\ InitHandler
    /\ InitObjects
    /\ apiToken.before = 0
    /\ apiSecret.data["token"] = "t1"

NextMux ==
    \/ StopBegins \/ StopReturns
    \/ \E s \in SessionIds : NewStreamManager(s)
    \/ \E s \in SessionIds : PluginStream(s)
    \/ \E s \in SessionIds : ListenForMessagesReturns(s)
    \/ \E s \in SessionIds : PluginStreamReturns(s)
    \/ \E c \in CallerIds, s \in SessionIds : CallRPC(c, s)
    \/ \E s \in SessionIds, id \in 1..MaxCalls : PluginResponds(s, id)
    \/ \E s \in SessionIds, id \in 1..MaxCalls : Dispatch(s, id)
    \/ \E c \in CallerIds : CallReturns(c)
    \/ \E c \in CallerIds : CallTimesOut(c)
    \/ Tick

SpecMux == InitMux /\ [][NextMux]_vars

\* The steps of the server's own goroutines: they run when they can.  When a plugin
\* connects, answers or closes its stream is up to the plugin.
ServerSteps ==
    \/ StopReturns
    \/ \E s \in SessionIds : PluginStream(s)
    \/ \E s \in SessionIds : PluginStreamReturns(s)
    \/ \E s \in SessionIds, id \in 1..MaxCalls : Dispatch(s, id)
    \/ \E c \in CallerIds : CallReturns(c)
    \/ \E c \in CallerIds : CallTimesOut(c)

SpecStop == InitMux /\ [][NextMux]_vars /\ WF_vars(ServerSteps)

\* The provider facades with their callers: one stream and its multiplexer, and a
\* call through a direct-unary facade.
InitFacade ==
    /\ env = "facade"
    /\ issued = NoCredential
    /\ InitHandler
    /\ InitObjects
    /\ apiToken.before = 0
    /\ apiSecret.data["token"] = "t1"

NextFacade ==
    \/ \E s \in SessionIds : NewStreamManager(s)
    \/ \E s \in SessionIds : PluginStream(s)
    \/ \E s \in SessionIds : ListenForMessagesReturns(s)
    \/ \E s \in SessionIds : PluginStreamReturns(s)
    \/ \E c \in CallerIds, s \in SessionIds : CallRPC(c, s)
    \/ \E s \in SessionIds, id \in 1..MaxCalls : PluginResponds(s, id)
    \/ \E s \in SessionIds, id \in 1..MaxCalls : Dispatch(s, id)
    \/ \E c \in CallerIds : CallReturns(c)
    \/ \E c \in CallerIds : CallTimesOut(c)
    \/ \E impl \in UnaryFacades, d \in {0, now + 2 * TimeoutTicks} : UnaryCall(impl, d)
    \/ UnaryAnswers \/ UnaryDeadlineExceeded
    \/ Tick

SpecFacade == InitFacade /\ [][NextFacade]_vars

\* The premise of timely renewal: the provider is connected and answers every
\* call, the API server serves every request, nobody deletes the objects, and the
\* Token is evaluated when its work-queue entry says so.
\* The plugin of the provider is connected and registered.
InitPlugin ==
    /\ sessions = [s \in SessionIds |-> IF s = 1 THEN [state |-> "live", name |-> ProviderName]
                                        ELSE NoSession]
    /\ activePlugins = {ProviderName}
    /\ server = "serving"
    /\ registry = [n \in DeclaredNames |-> IF n = ProviderName THEN 1 ELSE NoProvider]
    /\ nextID = [s \in SessionIds |-> 1]
    /\ outstanding = [s \in SessionIds |-> {}]
    /\ inbox = [s \in SessionIds |-> {}]
    /\ rpcs = [c \in CallerIds |-> NoRpc]
    /\ facade = NoFacadeCall
    /\ discovery = NoDiscovery
    /\ linode = NoLinode

InitConnected ==
    /\ InitObjects
    /\ apiSecret.data["token"] = "t1"
    /\ issued \in [metadata : {"m1"}, token : {"t1"}, exp : {now + l : l \in Lifetimes}]
    /\ InitPlugin

InitPrompt ==
    /\ env = "prompt"
    /\ InitConnected

NextPrompt == Reconcile \/ Tick

SpecPrompt == InitPrompt /\ [][NextPrompt]_vars

\* Recovery: the Linode plugin is connected and holds the token the Secret and the
\* Token describe, nobody deletes the objects, and the API server serves every
\* request but one write of the policy.  An evaluation that can run does run.
InitRecover ==
    /\ env = "faulty"
    /\ InitConnected

NextRecover == Reconcile \/ Tick

SpecRecover == InitRecover /\ [][NextRecover]_vars /\ WF_vars(Reconcile)

\* The 45-minute scenario and its neighbours: the Linode plugin is connected, every
\* request is served, and the Token either has no expiration yet or one within the
\* next hours, with a beforeDuration of up to an hour.
InitScenario ==
    /\ env = "scenario"
    /\ now = 1
    /\ \E e \in 0..(Hour + 1), b \in {0, Minutes45, Hour}, known \in BOOLEAN :
         /\ apiToken = [exists |-> TRUE, metadata |-> "m1",
                        exp |-> IF known THEN now + e ELSE 0, before |-> b]
         /\ issued = [metadata |-> "m1", token |-> "t1", exp |-> now + e]
    /\ apiSecret = [exists |-> TRUE, data |-> [k \in {"token", "other"} |->
                                                  IF k = "token" THEN "t1" ELSE "x"]]
    /\ InitEvaluation
    /\ InitPlugin

NextScenario == Reconcile \/ Tick

\* Cancellation: the provider is connected and every request is served, until the
\* context of the evaluations is cancelled.
InitCancel ==
    /\ env = "cancellable"
    /\ InitConnected

NextCancel == Reconcile \/ Tick \/ Cancel

SpecCancel == InitCancel /\ [][NextCancel]_vars

\* The Linode plugin, called once on an account of one or two tokens, with or
\* without expiry.
InitLinode ==
    /\ env = "linode"
    /\ issued = NoCredential
    /\ InitObjects
    /\ apiToken.before = 0
    /\ apiSecret.data["token"] = "t1"
    /\ server = "serving"
    /\ sessions = [s \in SessionIds |-> NoSession]
    /\ activePlugins = {}
    /\ registry = [n \in DeclaredNames |-> NoProvider]
    /\ nextID = [s \in SessionIds |-> 1]
    /\ outstanding = [s \in SessionIds |-> {}]
    /\ inbox = [s \in SessionIds |-> {}]
    /\ rpcs = [c \in CallerIds |-> NoRpc]
    /\ facade = NoFacadeCall
    /\ discovery = NoDiscovery
    /\ \E e1, e2 \in {NoExpiry, now + 2}, two \in BOOLEAN :
         linode = [tokens |-> {[id |-> 1, expiry |-> e1]}
                                \cup (IF two THEN {[id |-> 6, expiry |-> e2]} ELSE {}),
                   last |-> NoLinodeCall]

NextLinode ==
    /\ linode.last.method = "none"
    /\ \/ \E meta \in MetadataStrings, tok \in {0, 1, 6} : LinodeRenewToken(meta, tok)
       \/ \E meta \in MetadataStrings, tok \in {0, 1, 6} : LinodeGetTokenValidity(meta, tok)
       \/ \E exp \in {NoTime, now + 2}, e \in {NoError, "implementation error"} :
            GRPCServerGetTokenValidity(exp, e)

SpecLinode == InitLinode /\ [][NextLinode]_vars

\* Socket discovery on the directories of Directories.
InitDiscover ==
    /\ env = "discover"
    /\ issued = NoCredential
    /\ InitHandler
    /\ InitObjects
    /\ apiToken.before = 0
    /\ apiSecret.data["token"] = "t1"

NextDiscover == \E dir \in Directories : DiscoverPlugins(dir)

SpecDiscover == InitDiscover /\ [][NextDiscover]_vars

SpecScenario == InitScenario /\ [][NextScenario]_vars

\* ------------------------------------------------------------- properties
Ran(step) == \E i \in 1..Len(trail) : trail[i] = step
Called(method) == \E i \in 1..Len(calls) : calls[i].method = method
CountCalls(method) == Cardinality({i \in 1..Len(calls) : calls[i].method = method})
Emitted(type, reason) == \E i \in 1..Len(events) : events[i] = Event(type, reason)
Wrote(step, what) == \E i \in 1..Len(writes) : writes[i] = <<step, what>>

\* C1: an evaluation renews exactly when the expiration is not strictly after
\* now + beforeDuration: the due check decides due == (expiration <= now +
\* beforeDuration), and RenewToken is called in the evaluations where it is due,
\* among them expiration == now + beforeDuration and an expired credential.
C1_DueIffNotAfterThreshold ==
    dueCheck.done =>
        /\ dueCheck.due <=> (dueCheck.exp <= dueCheck.at + dueCheck.before)
        /\ pc # "RenewToken" =>
              (Called("RenewToken") <=> (dueCheck.exp <= dueCheck.at + dueCheck.before))

\* C1 witness: a credential expiring exactly at the threshold, with a positive
\* beforeDuration, and RenewToken called for it.
C1_Witness_AtThreshold ==
    /\ dueCheck.done
    /\ dueCheck.before > 0
    /\ dueCheck.exp = dueCheck.at + dueCheck.before
    /\ Called("RenewToken")

\* C2: within one evaluation every write of renewed metadata or expiration to the
\* Token comes after the successful write of the new value to the Secret.
C2_StoreBeforePolicy ==
    \A i \in 1..Len(writes) :
        writes[i][1] = "PersistPolicy" =>
            \E j \in 1..(i - 1) : writes[j] = <<"PersistStore", "secret">>

\* C2 witness: an evaluation that wrote both the Secret and the Token's new status.
C2_Witness_BothWritten ==
    /\ pc = "done"
    /\ err = NoError
    /\ Wrote("PersistStore", "secret")
    /\ Wrote("PersistPolicy", "status")

\* C3: with a provider that always answers and a scheduler that evaluates at each
\* recommended next-check time, for every beforeDuration the evaluation keeps
\* being re-invoked and the stored expiration is renewed no later than it is reached.
C3_RenewedBeforeExpiry ==
    /\ (pc = "idle" /\ apiToken.exp # 0) => queue # "none"
    /\ apiToken.exp # 0 => now <= apiToken.exp

\* C4: a successful evaluation returns expiration - beforeDuration as the next
\* check time (of the expiration it ends with), and when that time is not in the
\* future it asks for an immediate next check, not for none.
C4_NextCheckOrImmediate ==
    (pc = "done" /\ Ran("ComputeNextCheck")) =>
        LET delay == (token.exp - token.before) - now IN
        /\ err = NoError
        /\ delay > 0 => result.RequeueAfter = delay
        /\ delay <= 0 => (result.Requeue \/ result.RequeueAfter > 0)

\* C5: an evaluation that ends with an error returns the empty result: no
\* RequeueAfter and no Requeue.
C5_ErrorsReturnEmptyResult ==
    (pc = "done" /\ err # NoError) =>
        (result.RequeueAfter = 0 /\ ~result.Requeue)

\* C5 witness: the Token write failed after the Secret was written.
C5_Witness_PolicyWriteFailed ==
    /\ pc = "done"
    /\ err = "unable to update token"
    /\ Ran("PersistPolicy")
    /\ Wrote("PersistStore", "secret")

C7_KeyMissingDistinctFromEmpty ==
    (pc = "done" /\ Ran("ReadTokenKey")) =>
        /\ secret.data["token"] = Absent =>
              /\ err = "token key not found in secret"
              /\ events = <<Event("Warning", "TokenKeyNotFound")>>
        /\ secret.data["token"] = "" =>
              /\ err = "token is empty"
              /\ events = <<Event("Warning", "TokenEmpty")>>
        /\ secret.data["token"] \in {Absent, ""} =>
              /\ ~Ran("GetProvider")
              /\ calls = <<>>
              /\ writes = <<>>

\* C7 witness: an evaluation ended by a Secret without the token key.
C7_Witness_KeyMissing ==
    /\ pc = "done"
    /\ Ran("ReadTokenKey")
    /\ secret.data["token"] = Absent
    /\ err = "token key not found in secret"

\* C8: when the renewed value equals the value the Secret holds, PersistStore
\* writes nothing and emits no SecretUpdated event; when the new metadata and
\* expiration equal the Token's, PersistPolicy writes nothing and emits no
\* TokenUpdated event.
C8_IdempotentPersistence ==
    [][/\ (pc = "PersistStore" /\ pc' = "PersistPolicy" /\ apiSecret.exists
            /\ renewed.token = apiSecret.data["token"]) =>
              (writes' = writes /\ events' = events)
       /\ (pc = "PersistPolicy" /\ pc' = "ComputeNextCheck"
            /\ renewed.metadata = apiToken.metadata /\ renewed.exp = apiToken.exp) =>
              (writes' = writes /\ events' = events /\ apiToken' = apiToken)]_vars

\* C9: every call on a stream ends in one outcome: the response frame that carries
\* the correlation id allocated for the call, a timeout error at its deadline, or
\* a disconnect error of a stream that ended; its entry leaves the correlation
\* table at most once, and no caller is blocked past its deadline.
C9_CallOutcomes ==
    \A c \in CallerIds :
        /\ rpcs[c].state = "returned" =>
              /\ rpcs[c].outcome \in {"response", "timeout", "disconnect"}
              /\ rpcs[c].outcome = "response" => rpcs[c].payload = rpcs[c].id
              /\ rpcs[c].outcome = "timeout" => now >= rpcs[c].deadline
              /\ rpcs[c].outcome = "disconnect" => sessions[rpcs[c].sess].state # "live"
        /\ rpcs[c].state = "blocked" =>
              (rpcs[c].deadline # 0 /\ now <= rpcs[c].deadline)
        /\ rpcs[c].removed <= 1

\* C9 witness: two callers of the same stream, both returned with a response.
C9_Witness_TwoResponses ==
    \E c, d \in CallerIds :
        /\ c # d
        /\ rpcs[c].sess = rpcs[d].sess
        /\ rpcs[c].state = "returned" /\ rpcs[c].outcome = "response"
        /\ rpcs[d].state = "returned" /\ rpcs[d].outcome = "response"

\* C10: when a stream-backed provider leaves the registry, every call outstanding
\* on it has been failed with a disconnect error before: none of its calls is
\* still in its correlation table or still waiting on an empty channel.
C10_UnregisterFailsOutstanding ==
    [][\A n \in PluginNames :
          (registry[n] # NoProvider /\ registry'[n] = NoProvider) =>
              /\ outstanding'[registry[n]] = {}
              /\ \A c \in CallerIds :
                    (rpcs'[c].state = "blocked" /\ rpcs'[c].sess = registry[n])
                        => rpcs'[c].chan = ChanClosed]_vars

\* C11: register(name, h) makes get(name) return h, replacing an earlier handle
\* under the name; unregister of a name that is not registered changes nothing and
\* does not fail; get of a name that is not registered returns the not-found error
\* and no handle, and get of a registered name returns its handle and no error.
C11_RegistrySemantics ==
    [][/\ \A s \in SessionIds :
            (sessions[s].state = "handshaken" /\ sessions'[s].state = "live") =>
                (Get(registry', sessions'[s].name) = [handle |-> s, err |-> NoError])
       /\ \A s \in SessionIds :
            (sessions[s].state = "closing" /\ sessions'[s].state = "ended"
               /\ registry[sessions[s].name] = NoProvider) =>
                (registry' = registry /\ activePlugins' = activePlugins)
       /\ \A n \in PluginNames :
            /\ registry'[n] = NoProvider =>
                  (Get(registry', n) = [handle |-> NoProvider, err |-> "plugin not found"])
            /\ registry'[n] # NoProvider =>
                  (Get(registry', n) = [handle |-> registry'[n], err |-> NoError])]_vars

\* C11 witness: a second stream registered under a name that was registered and
\* the registry resolves the name to the second stream.
C11_Witness_Overwrite ==
    /\ sessions[1].state = "live" /\ sessions[2].state = "live"
    /\ sessions[1].name = sessions[2].name
    /\ Get(registry, sessions[2].name) = [handle |-> 2, err |-> NoError]

\* C12: once StreamServer.Stop has returned, the registry holds no provider and the
\* handler tracks no plugin, whatever streams connected, registered or ended while
\* the server was shutting down.
C12_NothingSurvivesStop ==
    server = "stopped" =>
        /\ \A n \in DeclaredNames : registry[n] = NoProvider
        /\ activePlugins = {}

\* C12 witness: Stop has returned after a stream that had registered.
C12_Witness_StoppedAfterRegistration ==
    /\ server = "stopped"
    /\ \E s \in SessionIds : sessions[s].state = "ended"

\* C13: when the handler of a stream returns, the stream's name is unregistered,
\* and a name under which no stream is registered and running resolves to the
\* not-found error, never to the handle of an ended stream.
C13_TeardownUnregisters ==
    /\ \A n \in PluginNames :
          (\A s \in SessionIds :
              ~(sessions[s].name = n /\ sessions[s].state \in {"live", "closing"}))
             => Get(registry, n) = [handle |-> NoProvider, err |-> "plugin not found"]
    /\ \A n \in PluginNames :
          registry[n] # NoProvider => sessions[registry[n]].state \in {"live", "closing"}
    /\ \A s \in SessionIds :
          (sessions[s].state = "ended"
             /\ \A r \in SessionIds : r # s => sessions[r].state \notin {"live", "closing"})
             => (registry[sessions[s].name] = NoProvider /\ sessions[s].name \notin activePlugins)

\* C13 witness: a stream that was registered has ended and its name does not
\* resolve any more.
C13_Witness_EndedAndUnregistered ==
    \E s \in SessionIds :
        /\ sessions[s].state = "ended"
        /\ Get(registry, sessions[s].name).err = "plugin not found"
        /\ server = "serving"

\* C14: a stream whose registration frame is malformed or declares the empty name
\* is rejected and never registered: no handle of it is in the registry and nothing
\* is registered or tracked under the empty name.
C14_RejectedNeverRegistered ==
    /\ registry[""] = NoProvider
    /\ "" \notin activePlugins
    /\ \A s \in SessionIds :
          sessions[s].state = "rejected" =>
              \A n \in DeclaredNames : registry[n] # s
    /\ \A s \in SessionIds :
          sessions[s].state \in {"handshaken", "live", "closing", "ended"} =>
              sessions[s].name \in PluginNames

\* C14 witness: a rejected stream next to a registered one.
C14_Witness_Rejected ==
    \E s, r \in SessionIds :
        /\ sessions[s].state = "rejected"
        /\ sessions[r].state = "live"

\* C15: every call through a provider facade is bounded: a call that is blocked
\* has a deadline, which has not passed, whether it goes through GRPCClient,
\* PluginClient or the stream, and whether or not the caller's context has one.
C15_FacadeCallsBounded ==
    /\ facade.state = "blocked" => (facade.deadline # 0 /\ now <= facade.deadline)
    /\ \A c \in CallerIds :
          rpcs[c].state = "blocked" => (rpcs[c].deadline # 0 /\ now <= rpcs[c].deadline)

\* The Warning events of the evaluation, and the reason each failing check of
\* Reconcile gives (lines 72-154).
Warnings == {i \in 1..Len(events) : events[i].type = "Warning"}
ReasonOf(e) ==
    CASE e = "unable to fetch secret" -> "SecretNotFound"
      [] e = "token key not found in secret" -> "TokenKeyNotFound"
      [] e = "token is empty" -> "TokenEmpty"
      [] e = "unable to get provider" -> "ProviderNotFound"
      [] e = "unable to get token validity" -> "TokenValidityError"
      [] e = "unable to renew token" -> "TokenRenewalError"
      [] e = "unable to update secret" -> "SecretUpdateError"
      [] e = "unable to update token" -> "TokenUpdateError"
      [] OTHER -> "<none>"

\* C16: an evaluation that ends with an error has emitted exactly one Warning
\* event, the last event it emitted, whose reason is the one of the check that
\* failed; this holds for a failed read of the Token as for every other step.
C16_OneWarningPerError ==
    (pc = "done" /\ err # NoError) =>
        /\ Cardinality(Warnings) = 1
        /\ Len(events) \in Warnings
        /\ events[Len(events)].reason = ReasonOf(err)
        /\ ReasonOf(err) # "<none>"

\* C17: an evaluation that finds no Token at its start ends quietly: no error, no
\* next-check time, no read of the Secret, no provider call, no write, no event.
C17_MissingTokenEndsQuietly ==
    stored = ReadNotFound =>
        /\ pc = "done"
        /\ err = NoError
        /\ result = EmptyResult
        /\ trail = <<"GetToken">>
        /\ secret = NoSecret
        /\ calls = <<>>
        /\ writes = <<>>
        /\ events = <<>>

\* C17 witness: the Token was deleted and an evaluation has read it.
C17_Witness_TokenGone ==
    /\ stored = ReadNotFound
    /\ ~apiToken.exists
    /\ pc = "done"

\* C18 as claimed: an evaluation whose read of the Secret finds none ends without
\* an error.
C18_MissingSecretEndsQuietly ==
    [][(pc = "GetSecret" /\ pc' # "GetSecret" /\ ~apiSecret.exists) => err' = NoError]_vars

\* C18 as amended: an evaluation whose read of the Secret finds none ends with the
\* error "unable to fetch secret", the empty result and the one Warning event
\* SecretNotFound, having called no provider and written nothing.
C18_MissingSecretIsAnError ==
    [][(pc = "GetSecret" /\ pc' # "GetSecret" /\ ~apiSecret.exists) =>
          /\ pc' = "done"
          /\ err' = "unable to fetch secret"
          /\ result' = EmptyResult
          /\ events' = <<Event("Warning", "SecretNotFound")>>
          /\ calls' = <<>>
          /\ writes' = <<>>
          /\ ~apiSecret'.exists]_vars

\* C18 witness: the Secret is gone and the evaluation that read it has ended with
\* the error.
C18_Witness_SecretGone ==
    /\ pc = "done"
    /\ trail = <<"GetToken", "GetSecret">>
    /\ ~apiSecret.exists
    /\ err = "unable to fetch secret"

\* C19: when the Token has been deleted between its read and the bootstrap write
\* or PersistPolicy, that write step returns no error and the Token is not created
\* again.
C19_DeletedTokenTolerated ==
    [][(pc \in {"BootstrapPatch", "PersistPolicy"} /\ pc' # pc /\ ~apiToken.exists) =>
          (err' = NoError /\ ~apiToken'.exists)]_vars

\* C20: the engine never creates a Secret: no step of an evaluation makes a Secret
\* exist that did not, and PersistStore on a Secret deleted since its read fails
\* and writes nothing.
C20_SecretNeverCreated ==
    [][/\ apiSecret'.exists => apiSecret.exists
       /\ (pc = "PersistStore" /\ pc' # pc /\ ~apiSecret.exists) =>
             (pc' = "done" /\ err' = "unable to update secret" /\ writes' = writes)]_vars

\* C20 witness: PersistStore has run on a Secret that was deleted after the
\* evaluation read it.
C20_Witness_PersistStoreOnDeleted ==
    /\ Ran("PersistStore")
    /\ ~apiSecret.exists
    /\ pc = "done"
    /\ err = "unable to update secret"

C22_ErrorIsTerminal ==
    /\ err # NoError => pc = "done"
    /\ CountCalls("RenewToken") <= 1
    /\ CountCalls("GetTokenValidity") <= 1
    /\ \A i, j \in 1..Len(trail) : trail[i] = trail[j] => i = j
    /\ Len(trail) > 0 => trail[1] = "GetToken"
    /\ pc = "GetToken" => (trail = <<>> /\ calls = <<>> /\ writes = <<>> /\ events = <<>>)
    /\ (pc = "done" /\ err = "unable to renew token") =>
          (trail[Len(trail)] = "RenewToken" /\ calls[Len(calls)].method = "RenewToken")
    /\ (pc = "done" /\ err = "unable to get token validity") =>
          (trail[Len(trail)] = "GetTokenValidity" /\ writes = <<>> /\ Len(calls) = 1)

\* C22 witness: an evaluation ended by a failed RenewToken after a bootstrap: two
\* provider calls, the second one failed and nothing followed it.
C22_Witness_RenewalFailedLast ==
    /\ pc = "done"
    /\ err = "unable to renew token"
    /\ Called("GetTokenValidity")
    /\ trail[Len(trail)] = "RenewToken"

\* The Secret holds the value of the token the provider honours while the Token
\* still carries the metadata of the token before it.
PartialPersist ==
    /\ apiSecret.data["token"] = issued.token
    /\ apiToken.metadata # issued.metadata

\* The Token's metadata and expiration describe the token held in the Secret, and
\* that is the token the provider honours.
Described ==
    /\ apiSecret.data["token"] = issued.token
    /\ apiToken.metadata = issued.metadata
    /\ apiToken.exp = issued.exp

\* C23: after a partial persist (the Secret holds the renewed value, the Token the
\* old metadata and expiration) the following evaluations eventually succeed, so
\* that the Token's metadata and expiration again describe the token in the Secret.
C23_PartialPersistRecovers == PartialPersist ~> Described

\* The evaluation met the scenario: expiration 45 minutes after the due check, with
\* a beforeDuration of one hour.
Scenario45 ==
    /\ dueCheck.done
    /\ dueCheck.exp = dueCheck.at + Minutes45
    /\ dueCheck.before = Hour

\* C24: a Token with expiration = now + 45m and beforeDuration = 1h is found due,
\* RenewToken is called once, the new expiration now + 24h is persisted, and the
\* evaluation returns a next check at now + 23h.
C24_Scenario45Minutes ==
    (pc = "done" /\ Scenario45) =>
        /\ dueCheck.due
        /\ CountCalls("RenewToken") = 1
        /\ err = NoError
        /\ apiToken.exp = dueCheck.at + Day
        /\ Wrote("PersistPolicy", "status")
        /\ now + result.RequeueAfter = dueCheck.at + (Day - Hour)

C24_Witness_NextCheckIn23Hours ==
    /\ pc = "done"
    /\ Scenario45
    /\ stored = dueCheck.exp
    /\ result.RequeueAfter = Day - Hour

\* The entry of caller c in the correlation table of its stream, if any.
EntryOf(c) == {e \in outstanding[rpcs[c].sess] : e.caller = c /\ e.id = rpcs[c].id}

\* C25: each outstanding call is removed from the correlation table and completed
\* exactly once, by the response, the deadline or the teardown, whichever is first
\* (a call that was stored is either in the table and not yet removed, or out of
\* it and removed once; a call that returned has been removed); and a frame whose
\* correlation id is not outstanding is dropped: no call, table or session changes
\* and the reader goes on with the next frame.
C25_RemovedExactlyOnce ==
    /\ [](\A c \in CallerIds :
            rpcs[c].id # 0 =>
                /\ rpcs[c].removed = IF EntryOf(c) = {} THEN 1 ELSE 0
                /\ rpcs[c].state = "returned" => rpcs[c].removed = 1
                /\ (rpcs[c].removed = 1 /\ rpcs[c].state = "blocked") =>
                       rpcs[c].chan # ChanEmpty)
    /\ [][\A s \in SessionIds, id \in 1..MaxCalls :
            (sessions[s].state = "live" /\ sessions'[s].state = "live"
               /\ id \in inbox[s] /\ id \notin inbox'[s] /\ Entries(s, {id}) = {}) =>
                  /\ rpcs' = rpcs
                  /\ outstanding' = outstanding
                  /\ sessions' = sessions
                  /\ \A f \in inbox'[s] : ENABLED Dispatch(s, f)]_vars

\* C25 witness: a call has timed out and been removed, its stream is live and the
\* response to it is still on its way to the reader; a second call of the stream
\* got its response.
C25_Witness_LateResponse ==
    \E c, d \in CallerIds :
        /\ rpcs[c].state = "returned" /\ rpcs[c].outcome = "timeout"
        /\ rpcs[c].removed = 1
        /\ sessions[rpcs[c].sess].state = "live"
        /\ rpcs[c].id \in inbox[rpcs[c].sess]
        /\ rpcs[d].sess = rpcs[c].sess
        /\ rpcs[d].state = "returned" /\ rpcs[d].outcome = "response"

\* The file name without its extension .sock.
Stem(f) == SubSeq(f, 1, Len(f) - Len(SockSuffix))

\* C26: discovery does not fail on any file name, and when it returns without an
\* error it has mapped every file matching *.sock to a provider named by the
\* file's basename without the extension .sock.
C26_NamesAreStems ==
    discovery.outcome # "none" =>
        /\ discovery.outcome = "returned"
        /\ discovery.err = NoError =>
              discovery.plugins =
                  {[name |-> Stem(f), socket |-> f] :
                      f \in {g \in discovery.dir : HasSuffix(g, SockSuffix)}}

\* The steps of Reconcile that make a request or a provider call.
CallSteps == {"GetToken", "GetSecret", "GetTokenValidity", "BootstrapPatch",
              "RenewToken", "PersistStore", "PersistPolicy"}

\* C27: every request and provider call runs on the evaluation's context: once it
\* is cancelled, a provider call in flight returns an error and the evaluation ends
\* with that error, any other request or call ends the evaluation with an error
\* too, and neither the Token nor the Secret is written any more.
C27_CancelStopsEvaluation ==
    [][env = "cancelled" =>
          /\ apiToken' = apiToken
          /\ apiSecret' = apiSecret
          /\ writes' = writes \/ writes' = <<>>
          /\ (pc \in CallSteps /\ pc' # pc) => (pc' = "done" /\ err' # NoError)
          /\ (pc = "RenewToken" /\ pc' # pc) => err' = "unable to renew token"
          /\ (pc = "GetTokenValidity" /\ pc' # pc) =>
                err' = "unable to get token validity"]_vars

\* C27 witness: the context was cancelled while RenewToken was in flight; the
\* evaluation ended there with the renewal error.
C27_Witness_CancelledInRenewal ==
    /\ env = "cancelled"
    /\ pc = "done"
    /\ trail # <<>> /\ trail[Len(trail)] = "RenewToken"
    /\ err = "unable to renew token"
    /\ ~Wrote("PersistStore", "secret")

\* C28: an evaluation in which renewal was due and every step succeeded leaves the
\* Secret's token equal to the value RenewToken returned, the Token's metadata equal
\* to the returned metadata and its status expiration equal to the returned
\* expiration (as long as nobody deleted them since); and RenewToken was called with
\* the metadata of the Token and the token value of the Secret as the evaluation
\* read them.
C28_RenewalPersisted ==
    /\ []((pc = "done" /\ err = NoError /\ Ran("RenewToken")) =>
            /\ apiSecret.exists => apiSecret.data["token"] = renewed.token
            /\ apiToken.exists =>
                  /\ apiToken.metadata = renewed.metadata
                  /\ apiToken.exp = renewed.exp
            /\ CountCalls("RenewToken") = 1)
    /\ [][(pc = "RenewToken" /\ pc' # pc) =>
            calls'[Len(calls')] = [method |-> "RenewToken",
                                   metadata |-> apiToken.metadata,
                                   token |-> secret.data["token"]]]_vars

\* C28 witness: a successful renewal that changed the value, the metadata and the
\* expiration.
C28_Witness_AllThreeChanged ==
    /\ pc = "done" /\ err = NoError /\ Ran("RenewToken")
    /\ apiSecret.exists /\ apiToken.exists
    /\ renewed.token # tokenValue
    /\ renewed.metadata = "m2"
    /\ apiToken.metadata = "m2"
    /\ apiSecret.data["token"] = renewed.token
    /\ apiToken.exp = renewed.exp

\* C29: a RenewToken that returns an error ends the evaluation with the renewal
\* error and the TokenRenewalError warning, and leaves the Secret and the Token as
\* they were before the call.
C29_FailedRenewalChangesNothing ==
    [][(pc = "RenewToken" /\ Len(trail') > Len(trail) /\ err' # NoError) =>
          /\ pc' = "done"
          /\ err' = "unable to renew token"
          /\ events' = Append(events, Event("Warning", "TokenRenewalError"))
          /\ apiSecret' = apiSecret
          /\ apiToken' = apiToken
          /\ writes' = writes]_vars

\* C29 witness: an evaluation ended by a failed RenewToken, the Token still with the
\* expiration that was due and the Secret with the value the call was made with.
C29_Witness_RenewalFailed ==
    /\ pc = "done"
    /\ err = "unable to renew token"
    /\ Emitted("Warning", "TokenRenewalError")
    /\ apiToken.exists /\ apiToken.exp = dueCheck.exp
    /\ apiSecret.exists /\ apiSecret.data["token"] = tokenValue

\* C30: a failed write of the Secret after a successful RenewToken ends the
\* evaluation with the SecretUpdateError warning before PersistPolicy, so the Token
\* is not written; a failed GetTokenValidity or bootstrap write of the Token ends
\* it before the due check, without a call of RenewToken.
C30_PersistAndBootstrapFailures ==
    pc = "done" =>
        /\ err = "unable to update secret" =>
              /\ Called("RenewToken")
              /\ Emitted("Warning", "SecretUpdateError")
              /\ ~Ran("PersistPolicy")
              /\ \A i \in 1..Len(writes) : writes[i][1] # "PersistPolicy"
              /\ apiToken.exists =>
                    (apiToken.metadata = token.metadata /\ apiToken.exp = token.exp)
        /\ (Ran("PersistStore") /\ ~Wrote("PersistStore", "secret")) =>
              err = "unable to update secret"
        /\ err = "unable to get token validity" =>
              /\ Emitted("Warning", "TokenValidityError")
              /\ ~dueCheck.done
              /\ ~Called("RenewToken")
        /\ (err = "unable to update token" /\ ~Ran("PersistPolicy")) =>
              /\ Ran("BootstrapPatch")
              /\ Emitted("Warning", "TokenUpdateError")
              /\ ~dueCheck.done
              /\ ~Called("RenewToken")

\* C30 witness: the Secret's write failed after a renewal that followed a bootstrap.
C30_Witness_StoreWriteFailed ==
    /\ pc = "done"
    /\ err = "unable to update secret"
    /\ Called("RenewToken")
    /\ renewed.token # tokenValue
    /\ apiSecret.exists /\ apiSecret.data["token"] = tokenValue

\* The evaluation read a known expiration and its due check found it not due.
KnownAndNotDue == stored > 0 /\ dueCheck.done /\ ~dueCheck.due

\* C31: an evaluation that finds the expiration known and renewal not due makes no
\* provider call, writes neither the Secret nor the Token, emits no event, and
\* returns a strictly positive next-check delay.
C31_NotDueIsQuiet ==
    (pc = "done" /\ KnownAndNotDue) =>
        /\ calls = <<>>
        /\ writes = <<>>
        /\ events = <<>>
        /\ err = NoError
        /\ result.RequeueAfter > 0

\* C32: a lookup of a provider name that is not registered at that time ends the
\* evaluation with the provider error and the ProviderNotFound warning, without a
\* provider call or a write; the lookup is made only after the Secret was read and
\* its token value found non-empty; a registered name does not give that error.
C32_UnregisteredProvider ==
    /\ []((pc = "done" /\ err = "unable to get provider") =>
            /\ events = <<Event("Warning", "ProviderNotFound")>>
            /\ calls = <<>>
            /\ writes = <<>>
            /\ result = EmptyResult)
    /\ []((pc = "GetProvider" \/ Ran("GetProvider")) =>
            /\ SubSeq(trail, 1, 3) = <<"GetToken", "GetSecret", "ReadTokenKey">>
            /\ tokenValue # "" /\ tokenValue = secret.data["token"])
    /\ [][(pc = "GetProvider" /\ pc' # pc) =>
            IF registry[ProviderName] = NoProvider
            THEN pc' = "done" /\ err' = "unable to get provider"
            ELSE pc' # "done" /\ err' = NoError]_vars

\* C32 witness: the lookup missed after the stream of the provider had ended.
C32_Witness_LookupMissed ==
    /\ pc = "done"
    /\ err = "unable to get provider"
    /\ registry[ProviderName] = NoProvider
    /\ \E s \in SessionIds :
          sessions[s].state = "ended" /\ sessions[s].name = ProviderName

\* C33: a connected provider that was the last to register under its name stays
\* resolvable until its own stream ends: while its stream is live, its handle is
\* replaced in the registry only by a later registration under the same name, and
\* never removed by the end of an older stream of that name.
C33_LiveProviderStaysResolvable ==
    [][\A s \in SessionIds :
          (sessions[s].state = "live" /\ sessions'[s].state = "live"
             /\ Get(registry, sessions[s].name).handle = s) =>
                \/ Get(registry', sessions[s].name).handle = s
                \/ \E t \in SessionIds \ {s} :
                      /\ sessions[t].state = "handshaken" /\ sessions'[t].state = "live"
                      /\ sessions[t].name = sessions[s].name]_vars

\* The names under which the registry holds a provider.
RegisteredNames == {n \in DOMAIN registry : registry[n] # NoProvider}

\* C34: between the handler's operations its active-plugin set equals the set of
\* names registered in the registry through it, and after DropAll (the server has
\* stopped) the set is empty.
C34_ActivePluginsMatchRegistry ==
    /\ activePlugins = RegisteredNames
    /\ server = "stopped" => activePlugins = {}

\* C34 witness: the server has stopped after two streams had registered, the second
\* under the name of the first.
C34_Witness_StoppedAfterReconnect ==
    /\ server = "stopped"
    /\ activePlugins = {}
    /\ \E s, t \in SessionIds :
          /\ s # t
          /\ sessions[s].state = "ended" /\ sessions[t].state = "ended"
          /\ sessions[s].name = sessions[t].name
          /\ sessions[s].name \in PluginNames

\* C35: PersistStore changes only the token key of the Secret: whether its write
\* succeeds or fails, every other key the Secret held keeps its value, and the
\* Secret is neither created nor deleted by it.
C35_OnlyTokenKeyChanges ==
    [][(pc = "PersistStore" /\ Len(trail') > Len(trail)) =>
          /\ apiSecret'.exists = apiSecret.exists
          /\ DOMAIN apiSecret'.data = DOMAIN apiSecret.data
          /\ \A k \in DOMAIN apiSecret.data \ {"token"} :
                apiSecret'.data[k] = apiSecret.data[k]
          /\ apiSecret'.data["token"] \in {apiSecret.data["token"], renewed.token}]_vars

\* C35 witness: PersistStore has replaced the token value; the other key is there.
C35_Witness_TokenReplaced ==
    /\ pc = "PersistPolicy"
    /\ Wrote("PersistStore", "secret")
    /\ apiSecret.exists
    /\ apiSecret.data["token"] = renewed.token
    /\ apiSecret.data["token"] # tokenValue
    /\ apiSecret.data["other"] = "x"

\* C36: Stop terminates: once Stop has been called it returns after finitely many
\* steps, also while plugin streams are connected.
C36_StopTerminates == (server = "stopping") ~> (server = "stopped")


\* The position of the first call of the API operation in the last call's log, and
\* 0 if the log has none.
ApiCallAt(name) ==
    IF \E i \in 1..Len(linode.last.log) : linode.last.log[i].call = name
    THEN CHOOSE i \in 1..Len(linode.last.log) :
             /\ linode.last.log[i].call = name
             /\ \A j \in 1..(i - 1) : linode.last.log[j].call # name
    ELSE 0

\* C37: the Linode renewal creates the new token before it deletes the old one and
\* deletes the old one only when the new one exists in the account; when reading
\* the old token or creating the new one fails, no delete is requested and the
\* account keeps every token it had; a success carries a new token, an expiration
\* and the new id as decimal metadata that Atoi converts back to that id, and is
\* returned only after the old token was deleted.
C37_CreateBeforeDelete ==
    linode.last.method = "RenewToken" =>
        LET last == linode.last
            oldId == Atoi(last.meta).n
            newId == FreshId(last.before)
        IN  /\ ApiCallAt("DeleteToken") # 0 =>
                  /\ ApiCallAt("CreateToken") # 0
                  /\ ApiCallAt("CreateToken") < ApiCallAt("DeleteToken")
                  /\ newId \in TokenIds(linode.tokens)
                  /\ last.log[ApiCallAt("DeleteToken")].id = oldId
            /\ last.err \in {"invalid metadata", "failed to get token",
                              "failed to create token"} =>
                  /\ ApiCallAt("DeleteToken") = 0
                  /\ linode.tokens = last.before
            /\ last.outcome = "ok" =>
                  /\ ApiCallAt("DeleteToken") = Len(last.log)
                  /\ oldId \notin TokenIds(linode.tokens)
                  /\ last.newToken = newId
                  /\ newId \in TokenIds(linode.tokens)
                  /\ last.exp # NoTime
                  /\ Atoi(last.newMetadata) = [n |-> newId, err |-> NoError]
            /\ last.outcome \in {"ok", "error"}

\* A renewal succeeded on an account of two tokens: the old token is gone, the
\* other one and the new one are there.
C37_Witness_RenewedAndDeleted ==
    /\ linode.last.method = "RenewToken"
    /\ linode.last.outcome = "ok"
    /\ Cardinality(linode.last.before) = 2
    /\ Cardinality(linode.tokens) = 2
    /\ linode.last.newMetadata = <<"7">>


\* C38: a validity check never succeeds without an expiration.  The Linode
\* provider answers with the token's expiry, or with now plus ten years for a token
\* without expiry; and each server wrapper, the Linode one and the gRPC one over
\* any implementation, ends with a response that has an expiration or with an
\* error, whatever the implementation returned.
C38_ValidityHasExpiration ==
    LET last == linode.last
        old == CHOOSE t \in last.before : t.id = Atoi(last.meta).n
    IN  /\ last.method \in {"GetTokenValidity", "GRPCServer.GetTokenValidity"} =>
              /\ last.outcome \in {"ok", "error"}
              /\ last.outcome = "ok" => last.exp # NoTime
        /\ last.method = "GetTokenValidity" /\ last.outcome = "ok" =>
              last.exp = IF old.expiry # NoExpiry THEN old.expiry ELSE now + TenYears


\* The metadata is an optional sign followed by one or more decimal digits.
DecimalString(meta) ==
    LET ds == IF meta # <<>> /\ Head(meta) \in {"-", "+"} THEN Tail(meta) ELSE meta
    IN  ds # <<>> /\ \A i \in 1..Len(ds) : IsDigit(ds[i])

\* The value of a decimal string.
SignedValue(meta) ==
    IF Head(meta) = "-" THEN -DecimalValue(Tail(meta))
    ELSE IF Head(meta) = "+" THEN DecimalValue(Tail(meta))
    ELSE DecimalValue(meta)

\* The last call of the Linode plugin refused its metadata: an invalid-metadata
\* error, no request to the Linode API, and the account as it was.
RejectedQuietly ==
    /\ linode.last.err = "invalid metadata"
    /\ linode.last.outcome = "error"
    /\ linode.last.log = <<>>
    /\ linode.tokens = linode.last.before

\* C39: RenewToken and GetTokenValidity of the Linode provider accept the metadata
\* exactly when it is a decimal string, an optional sign and one or more digits,
\* whose value an int can hold; a negative number is accepted, the empty string, a
\* non-numeric string and a number out of the range of int are rejected; a call
\* with rejected metadata returns the invalid-metadata error without any request to
\* the Linode API and leaves the account as it was.
C39_MetadataAcceptedIffInt ==
    linode.last.method \in {"RenewToken", "GetTokenValidity"} =>
        LET meta == linode.last.meta
            accepted == /\ DecimalString(meta)
                        /\ SignedValue(meta) >= IntMin
                        /\ SignedValue(meta) <= IntMax
        IN  /\ linode.last.err = "invalid metadata" <=> ~accepted
            /\ ~accepted => RejectedQuietly
            /\ accepted => linode.last.log # <<>>

\* C39 as stated: the metadata is accepted exactly when it is a decimal integer
\* string, whatever its value.
C39_MetadataAcceptedIffDecimal ==
    linode.last.method \in {"RenewToken", "GetTokenValidity"} =>
        /\ linode.last.err = "invalid metadata" <=> ~DecimalString(linode.last.meta)
        /\ ~DecimalString(linode.last.meta) => RejectedQuietly

\* A renewal was asked for with digits only, of a value no int holds, and was
\* refused before any request to the API.
C39_Witness_OutOfRangeRejected ==
    /\ linode.last.method = "RenewToken"
    /\ DecimalString(linode.last.meta)
    /\ SignedValue(linode.last.meta) > IntMax
    /\ RejectedQuietly

====
